---- MODULE Spec2Model ----
(***************************************************************************)
(* A model of rwkv/model.py (ChatRWKV): the strategy planner RWKVStrategy, *)
(* the loader RWKV.__init__, the int8 codec and the forward pass.          *)
(*                                                                         *)
(* Python strings are TLA+ strings, read a character at a time (Len, SubSeq *)
(* and \o), so that strip, split, startswith, endswith, `in` and the       *)
(* strategy regular expression are computed as the code computes them.     *)
(* Python lists keep their 0-based indices: they are functions on 0..n-1.  *)
(***************************************************************************)
EXTENDS Integers, Sequences, FiniteSets, TLC

\* ------------------------------------------------------------------ bounds
MaxSeg == 3
MaxCount == 3
MaxNLayer == 4
MaxBlocks == 2
MaxDepth == 13
MaxKey == 50

\* ----------------------------------------------------------------- strings
None == "None"

\* str[i], 1-based
Char(str, i) == SubSeq(str, i, i)

Digits == "0123456789"

IsDigit(c) == \E d \in 1..10 : Char(Digits, d) = c

HasAt(str, i, lit) ==
    /\ i >= 1
    /\ i + Len(lit) - 1 <= Len(str)
    /\ SubSeq(str, i, i + Len(lit) - 1) = lit

StartsWith(str, lit) == HasAt(str, 1, lit)

EndsWith(str, lit) == HasAt(str, Len(str) - Len(lit) + 1, lit)

Contains(str, lit) == \E i \in 1..(Len(str) + 1) : HasAt(str, i, lit)

Strip(str) ==
    LET keep == {i \in 1..Len(str) : Char(str, i) # " "}
    IN  IF keep = {} THEN ""
        ELSE SubSeq(str, CHOOSE i \in keep : \A j \in keep : i <= j,
                         CHOOSE i \in keep : \A j \in keep : i >= j)

\* str.split(sep): a Python list, here 1-based; ToList makes it 0-based.
RECURSIVE Split(_, _)
Split(str, sep) ==
    LET hits == {i \in 1..Len(str) : HasAt(str, i, sep)}
    IN  IF hits = {} THEN <<str>>
        ELSE LET i == CHOOSE h \in hits : \A g \in hits : h <= g
             IN  <<SubSeq(str, 1, i - 1)>>
                   \o Split(SubSeq(str, i + Len(sep), Len(str)), sep)

ToList(sq) == [i \in 0..(Len(sq) - 1) |-> sq[i + 1]]

PyLen(lst) == Cardinality(DOMAIN lst)

\* int(str) for the characters of the model's alphabet: an optional sign and
\* decimal digits; anything else raises ValueError.
IsInt(str) ==
    LET body == IF Len(str) > 0 /\ Char(str, 1) \in {"+", "-"}
                THEN SubSeq(str, 2, Len(str)) ELSE str
    IN  Len(body) > 0 /\ \A i \in 1..Len(body) : IsDigit(Char(body, i))

RECURSIVE NatOf(_)
NatOf(str) ==
    IF str = "" THEN 0
    ELSE 10 * NatOf(SubSeq(str, 1, Len(str) - 1))
           + (CHOOSE d \in 1..10 : Char(Digits, d) = Char(str, Len(str))) - 1

ToInt(str) ==
    IF Char(str, 1) = "-" THEN 0 - NatOf(SubSeq(str, 2, Len(str)))
    ELSE IF Char(str, 1) = "+" THEN NatOf(SubSeq(str, 2, Len(str)))
    ELSE NatOf(str)

\* str(n) for n >= 0
RECURSIVE IntStr(_)
IntStr(n) == IF n < 10 THEN Char(Digits, n + 1)
             ELSE IntStr(n \div 10) \o Char(Digits, (n % 10) + 1)

\* ------------------------------------------------------- STRATEGY_REGEX
\* A matcher works on sets of positions: M(str, P) is the set of positions
\* the pattern can end at when it starts at a position of P (1-based, the
\* position of the next unread character).
ReLit(str, P, lit) == {p + Len(lit) : p \in {q \in P : HasAt(str, q, lit)}}

\* " *"
ReSpaces(str, P) ==
    {q \in 1..(Len(str) + 1) :
        \E p \in P : p <= q /\ \A j \in p..(q - 1) : Char(str, j) = " "}

\* "[\d]+"
ReDigits(str, P) ==
    {q \in 1..(Len(str) + 1) :
        \E p \in P : p < q /\ \A j \in p..(q - 1) : IsDigit(Char(str, j))}

\* "(?:cuda(?::[\d]+)?|cpu)"
ReDevice(str, P) ==
    LET cuda == ReLit(str, P, "cuda")
    IN  cuda \cup ReDigits(str, ReLit(str, cuda, ":")) \cup ReLit(str, P, "cpu")

\* "(?:fp(?:16|32)|bf16)"
ReDtype(str, P) ==
    LET fp == ReLit(str, P, "fp")
    IN  ReLit(str, fp, "16") \cup ReLit(str, fp, "32") \cup ReLit(str, P, "bf16")

\* "(?: \*[\d]+\+?)?"
ReCount(str, P) ==
    LET num == ReDigits(str, ReLit(str, ReLit(str, P, " "), "*"))
    IN  P \cup num \cup ReLit(str, num, "+")

\* one pass of the repeated group:
\* "(?:^|->) *(device) (dtype)(?:i8|i4|i3)?(count) *"
ReGroup(str, P) ==
    LET start == (P \cap {1}) \cup ReLit(str, P, "->")
        dtype == ReDtype(str, ReLit(str, ReDevice(str, ReSpaces(str, start)), " "))
        quant == dtype \cup ReLit(str, dtype, "i8") \cup ReLit(str, dtype, "i4")
                       \cup ReLit(str, dtype, "i3")
    IN  ReSpaces(str, ReCount(str, quant))

\* "(...)+" : the positions reachable by one or more passes
RECURSIVE RePlus(_, _, _)
RePlus(str, P, seen) ==
    LET nxt == ReGroup(str, P)
    IN  IF nxt \subseteq seen THEN seen
        ELSE RePlus(str, nxt \ seen, seen \cup nxt)

\* re.match(STRATEGY_REGEX, strategy): "^(...)+$"
STRATEGY_REGEX(str) == (Len(str) + 1) \in RePlus(str, {1}, {})

\* ------------------------------------------------------------ RWKVStrategy
\* torch dtypes
T_FLOAT == "float32"
T_FLOAT16 == "float16"
T_BFLOAT16 == "bfloat16"
T_UINT8 == "uint8"

Raise(kind, text) == [ok |-> FALSE, err |-> kind, msg |-> text]

\* s = [x.strip().split(' ') for x in strategy_string.split('->')]
SplitStrategy(strategy_string) ==
    LET parts == Split(strategy_string, "->")
    IN  ToList([i \in 1..Len(parts) |-> ToList(Split(Strip(parts[i]), " "))])

\* si[1] after lines 101-106: [atype, wtype]. When si1 starts with none of
\* fp32, fp16, bf16, si[1] is still a string: si[1][0] raises IndexError on
\* an empty one, and str += list raises TypeError.
SegDtypes(si1) ==
    LET atype == IF StartsWith(si1, "fp32") THEN T_FLOAT
                 ELSE IF StartsWith(si1, "fp16") THEN T_FLOAT16
                 ELSE IF StartsWith(si1, "bf16") THEN T_BFLOAT16
                 ELSE None
    IN  IF atype = None
        THEN IF ~EndsWith(si1, "i8") /\ Len(si1) = 0
             THEN Raise("IndexError", "string index out of range")
             ELSE Raise("TypeError", "can only concatenate str to str")
        ELSE [ok |-> TRUE,
              atype |-> atype,
              wtype |-> IF EndsWith(si1, "i8") THEN T_UINT8 ELSE atype]

\* One pass of the loop of lines 97-122 on segment i. st.brk records the break.
ParseSegment(s, i, to_allocate, st) ==
    LET si == s[i]
    IN  IF PyLen(si) < 2
        THEN [st EXCEPT !.err = "IndexError", !.msg = "list index out of range"]
        ELSE
        LET dt == SegDtypes(si[1])
        IN  IF ~dt.ok THEN [st EXCEPT !.err = dt.err, !.msg = dt.msg]
            ELSE
            LET st1 == [st EXCEPT !.dtypes[i] = dt]
            IN  IF PyLen(si) > 2
                THEN LET ss == si[2]
                         plus == EndsWith(ss, "+")
                         num == IF plus THEN SubSeq(ss, 2, Len(ss) - 1)
                                ELSE SubSeq(ss, 2, Len(ss))
                     IN  IF ~StartsWith(ss, "*")
                         THEN [st1 EXCEPT !.err = "ValueError",
                                          !.msg = "Expected * in strategy"]
                         ELSE IF ~IsInt(num)
                         THEN [st1 EXCEPT !.err = "ValueError",
                                          !.msg = "invalid literal for int()"]
                         ELSE
                         LET count == ToInt(num)
                             allocated == st1.allocated + count
                         IN  [st1 EXCEPT
                                !.plan[i] = IF allocated >= to_allocate
                                            THEN count + (to_allocate - allocated)
                                            ELSE count,
                                !.stream_i = IF plus THEN i ELSE @,
                                !.allocated = allocated,
                                !.brk = allocated >= to_allocate]
                ELSE [st1 EXCEPT !.free_slots = @ + 1]

RECURSIVE ParseLoop(_, _, _, _)
ParseLoop(s, i, to_allocate, st) ==
    IF i >= PyLen(s) \/ st.err # None \/ st.brk THEN st
    ELSE ParseLoop(s, i + 1, to_allocate, ParseSegment(s, i, to_allocate, st))

\* (mutant of ShareStep: every share is the same floor of the whole remainder)
ShareStep_EvenSplit(i, to_allocate, st) ==
    IF st.plan[i] # 0 THEN st
    ELSE IF st.free_slots = 0
    THEN [st EXCEPT !.err = "ZeroDivisionError",
                    !.msg = "integer division or modulo by zero"]
    ELSE [st EXCEPT !.plan[i] = (to_allocate - st.allocated) \div st.free_slots]

\* One pass of the loop of lines 125-129: every segment whose plan is 0 takes
\* its share; dividing by free_slots = 0 raises ZeroDivisionError.
ShareStep(i, to_allocate, st) ==
    IF st.plan[i] # 0 THEN st
    ELSE IF st.free_slots = 0
    THEN [st EXCEPT !.err = "ZeroDivisionError",
                    !.msg = "integer division or modulo by zero"]
    ELSE LET share == (to_allocate - st.allocated) \div st.free_slots
         IN  [st EXCEPT !.plan[i] = share,
                        !.allocated = @ + share,
                        !.free_slots = @ - 1]

RECURSIVE ShareLoop(_, _, _, _)
ShareLoop(n, i, to_allocate, st) ==
    IF i >= n \/ st.err # None THEN st
    ELSE ShareLoop(n, i + 1, to_allocate, ShareStep(i, to_allocate, st))

\* Lines 123-135, which run when the loop of lines 97-122 has raised
\* nothing: the layers no explicit count has taken.
Distribute(n, to_allocate, st) ==
    IF st.err # None THEN st
    ELSE IF st.stream_i < 0
    THEN LET st1 == IF st.free_slots > 0 /\ to_allocate > st.allocated
                    THEN ShareLoop(n, 0, to_allocate, st)
                    ELSE st
         IN  IF st1.err = None /\ to_allocate > st1.allocated
             THEN [st1 EXCEPT !.plan[n - 1] = @ + (to_allocate - st1.allocated)]
             ELSE st1
    ELSE IF to_allocate > st.allocated
         THEN [st EXCEPT !.stream_count = to_allocate - st.allocated,
                         !.plan[st.stream_i] = @ + (to_allocate - st.allocated)]
         ELSE st

\* Line 143: plan[i] += 0 if i == 0 else plan[i-1]
RECURSIVE Cumulate(_, _)
Cumulate(plan, i) ==
    IF i = 0 THEN plan[0] ELSE plan[i] + Cumulate(plan, i - 1)

\* (mutant of StreamFlag: every layer of the '+' segment is flagged)
StreamFlag_WholeSegment(i, n, stream_i, plan_i, stream_count) ==
    i = stream_i

\* Line 152: the stream flag of layer n, which segment i holds.
StreamFlag(i, n, stream_i, plan_i, stream_count) ==
    i = stream_i /\ n >= plan_i - stream_count

\* strategy[n] = None: a slot no segment has filled
NoSlot == [device |-> "", atype |-> None, wtype |-> None, stream |-> FALSE]

\* Lines 145-153: the slot of layer n is taken from the first segment i with
\* n < plan[i]; None when there is none.
Slot(s, st, plan, n) ==
    LET fits == {i \in DOMAIN plan : n < plan[i]}
    IN  IF fits = {} THEN NoSlot
        ELSE LET i == CHOOSE j \in fits : \A k \in fits : j <= k
             IN  [device |-> s[i][0],
                  atype |-> st.dtypes[i].atype,
                  wtype |-> st.dtypes[i].wtype,
                  stream |-> StreamFlag(i, n, st.stream_i, plan[i], st.stream_count)]

\* Lines 136-159: the report, the slots and the fields of the object, once
\* the loops of lines 97-135 have left st. The report of lines 136-142 is
\* kept as its numbers: per segment the layers stored and the layers streamed.
StrategyObject(strategy_string, n_layer, s, st) ==
    LET n == PyLen(s)
        plan == [i \in 0..(n - 1) |-> Cumulate(st.plan, i)]
        strategy == [l \in 0..n_layer |-> Slot(s, st, plan, l)]
    IN  IF st.err # None THEN Raise(st.err, st.msg)
        \* lines 138-142: the report reads ss[1] of every segment, also of
        \* those the loop of line 97 left unread when it broke off
        ELSE IF \E i \in 0..(n - 1) : PyLen(s[i]) < 2
        THEN Raise("IndexError", "list index out of range")
        ELSE IF \E l \in 0..n_layer : strategy[l] = NoSlot
        THEN Raise("AttributeError", "NoneType object has no attribute device")
        ELSE [ok |-> TRUE,
              err |-> None,
              msg |-> None,
              strategy_string |-> strategy_string,
              n_layer |-> n_layer,
              strategy |-> strategy,
              plan |-> plan,
              report |-> [i \in 0..(n - 1) |->
                            IF i # st.stream_i
                            THEN [store |-> st.plan[i], stream |-> 0]
                            ELSE [store |-> st.plan[i] - st.stream_count,
                                  stream |-> st.stream_count]],
              stream_i |-> st.stream_i]

\* Lines 93-96: the split segments and the counters before the first loop.
Segments(strategy_string, n_layer, s) ==
    StrategyObject(strategy_string, n_layer, s,
        Distribute(PyLen(s), n_layer + 1,
            ParseLoop(s, 0, n_layer + 1,
                      [plan |-> [i \in 0..(PyLen(s) - 1) |-> 0],
                       dtypes |-> [i \in 0..(PyLen(s) - 1) |-> None],
                       stream_i |-> -1,
                       stream_count |-> 0,
                       allocated |-> 0,
                       free_slots |-> 0,
                       brk |-> FALSE,
                       err |-> None,
                       msg |-> None])))

\* RWKVStrategy.__init__ (lines 85-159)
RWKVStrategy(strategy_string_in, n_layer) ==
    Segments(Strip(strategy_string_in), n_layer,
             SplitStrategy(Strip(strategy_string_in)))

\* (mutant of CompatLoop: the device is compared too)
RECURSIVE CompatLoop_Device(_, _, _)
CompatLoop_Device(self, other, i) ==
    IF i >= PyLen(self.strategy) THEN TRUE
    ELSE IF self.strategy[i].atype # other.strategy[i].atype
            \/ self.strategy[i].wtype # other.strategy[i].wtype
            \/ self.strategy[i].device # other.strategy[i].device
    THEN FALSE
    ELSE CompatLoop_Device(self, other, i + 1)

\* RWKVStrategy.is_compatible (lines 161-170): the loop returns False at the
\* first layer whose activation or weight dtype differs.
RECURSIVE CompatLoop(_, _, _)
CompatLoop(self, other, i) ==
    IF i >= PyLen(self.strategy) THEN TRUE
    ELSE IF self.strategy[i].atype # other.strategy[i].atype
            \/ self.strategy[i].wtype # other.strategy[i].wtype
    THEN FALSE
    ELSE CompatLoop(self, other, i + 1)

is_compatible(self, other) ==
    IF self.n_layer # other.n_layer
       \/ PyLen(self.strategy) # PyLen(other.strategy)
    THEN FALSE
    ELSE CompatLoop(self, other, 0)


\* ------------------------------------------------------ checkpoint files
\* A checkpoint is a dict from parameter names to tensors.  A tensor is
\* followed through the loader by its dtype, device and shape and by what
\* has been done to its values: div halvings (l.264), a transposition
\* (l.269), -exp (l.272), the ln0 normalisation (l.239), int8 coding
\* (l.386) and pinning (l.318).
RWKV_PRECONVERT_FORMAT == 1
N_EMBD == 2
N_FFN == 5
N_VOCAB == 3

Tensor(dtype, shape) ==
    [dtype |-> dtype, device |-> "cpu", shape |-> shape, div |-> 0,
     T |-> FALSE, negexp |-> FALSE, ln0 |-> FALSE, pinned |-> FALSE]

\* w[k] = v
Put(w, k, v) == (k :> v) @@ w

\* del w[k]
Del(w, k) == [x \in (DOMAIN w) \ {k} |-> w[x]]

BlockKey(i, name) == "blocks." \o IntStr(i) \o "." \o name

Ln0Keys == {"blocks.0.ln0.weight", "blocks.0.ln0.bias"}

\* the parameters of a fresh RWKV-4 checkpoint of n blocks: the 4 + 18 n
\* of l.301 and the two ln0 parameters that l.242-243 delete
FreshKeys(n) ==
    LET ln == {"ln1.weight", "ln1.bias", "ln2.weight", "ln2.bias"}
        att == {"att.time_decay", "att.time_first", "att.time_mix_k",
                "att.time_mix_v", "att.time_mix_r", "att.key.weight",
                "att.value.weight", "att.receptance.weight",
                "att.output.weight"}
        ffn == {"ffn.time_mix_k", "ffn.time_mix_r", "ffn.key.weight",
                "ffn.value.weight", "ffn.receptance.weight"}
    IN  {"emb.weight", "ln_out.weight", "ln_out.bias", "head.weight"}
        \cup Ln0Keys
        \cup {BlockKey(i, name) : i \in 0..(n - 1), name \in ln \cup att \cup ffn}

RawShape(k) ==
    IF k \in {"emb.weight", "head.weight"} THEN <<N_VOCAB, N_EMBD>>
    ELSE IF Contains(k, ".time_mix_") THEN <<1, 1, N_EMBD>>
    ELSE IF EndsWith(k, "ffn.key.weight") THEN <<N_FFN, N_EMBD>>
    ELSE IF EndsWith(k, "ffn.value.weight") THEN <<N_EMBD, N_FFN>>
    ELSE IF EndsWith(k, "key.weight") \/ EndsWith(k, "value.weight")
            \/ EndsWith(k, "receptance.weight")
            \/ EndsWith(k, "output.weight") THEN <<N_EMBD, N_EMBD>>
    ELSE <<N_EMBD>>

Checkpoint(keys) ==
    [w |-> [k \in keys |-> Tensor("bfloat16", RawShape(k))], marker |-> None]

\* The tests the loader makes on a parameter name, x.split('.')[1] and
\* `lit in x`, computed once for the names that the files of this model hold.
ExtraKey == BlockKey(0, "att.time_mix_g")

AuxSuffixes == <<"_mx", "_rx", "_my", "_ry">>

AllKeys ==
    LET named == FreshKeys(MaxDepth) \cup {ExtraKey}
    IN  named \cup {k \o AuxSuffixes[j] : k \in named, j \in 1..Len(AuxSuffixes)}

KeyHas ==
    LET literals ==
            {"blocks.", "ln_out.", "head.", "att.output.weight",
             "ffn.value.weight", ".time_", "key.weight", "value.weight",
             "receptance.weight", "output.weight", "head.weight",
             ".time_decay", ".time_first", "emb", "emb."}
    IN  [x \in AllKeys |-> {lit \in literals : Contains(x, lit)}]

In(lit, x) == lit \in KeyHas[x]

\* int(x.split('.')[1]) if 'blocks.' in x else 0   (l.251)
KeyField ==
    [x \in AllKeys |-> IF In("blocks.", x) THEN ToInt(Split(x, ".")[2]) ELSE 0]

\* int(x.split('.', 2)[1]) if x.startswith('blocks.') else 0   (l.345)
MARKER_KEY == "preconverted_for_strategy"

LayerOf ==
    [x \in AllKeys \cup {MARKER_KEY} |->
        IF StartsWith(x, "blocks.") THEN ToInt(Split(x, ".")[2]) ELSE 0]

\* get_nlayer (l.342-347): the largest layer_id + 1, and 0 without keys
get_nlayer(keys) ==
    LET seen == {0} \cup {LayerOf[x] + 1 : x \in keys}
    IN  CHOOSE n_layer \in seen : \A m \in seen : n_layer >= m


\* ------------------------------------------------------------ RWKV.__init__
RESCALE_EVERY == 6

NoExc == [type |-> None, msg |-> None, args |-> <<>>]

Fail(type, msg, args) ==
    [built |-> FALSE, exc |-> [type |-> type, msg |-> msg, args |-> args]]

MSG_INVALID_STRATEGY ==
    "Invalid strategy. Please read https://pypi.org/project/rwkv/"
MSG_INCOMPATIBLE_VERSION ==
    "Preconverted model saved for an incompatible version!"
MSG_INCOMPATIBLE_STRATEGY ==
    "Loading preconverted module with incompatible strategy."
MSG_NOT_RWKV4 ==
    "Error: not a RWKV-4 model (4a and 4b models are not supported as of now)"

\* torch.load(..., map_location='cpu') (l.204)
TorchLoad(f) ==
    [k \in DOMAIN f.w |-> [f.w[k] EXCEPT !.device = "cpu", !.pinned = FALSE]]

\* l.327-332: the loop stops at the first key that w does not hold
RECURSIVE MoveAux(_, _, _, _)
MoveAux(w, k, device, j) ==
    IF j > Len(AuxSuffixes) THEN w
    ELSE LET tensorkey == k \o AuxSuffixes[j]
         IN  IF tensorkey \notin DOMAIN w THEN w
             ELSE MoveAux(Put(w, tensorkey, [w[tensorkey] EXCEPT !.device = device]),
                          k, device, j + 1)

\* _handle_common_keys, l.313-324; pin_memory is taken to succeed
PlaceKey(w, k, dd, use_pinned_memory) ==
    IF In("emb.", k) THEN w
    ELSE IF dd.stream
            /\ (EndsWith(k, "key.weight") \/ EndsWith(k, "value.weight")
                \/ EndsWith(k, "receptance.weight")
                \/ EndsWith(k, "output.weight"))
    THEN IF use_pinned_memory
         THEN Put(w, k, [w[k] EXCEPT !.pinned = TRUE])
         ELSE w
    ELSE IF dd.device # "cpu"
    THEN Put(w, k, [w[k] EXCEPT !.device = dd.device])
    ELSE w

\* _handle_common_keys (l.311-337)
handle_common_keys(w, k, dd, use_pinned_memory) ==
    IF dd.stream \/ dd.device # "cpu"
    THEN MoveAux(PlaceKey(w, k, dd, use_pinned_memory), k, dd.device, 1)
    ELSE PlaceKey(w, k, dd, use_pinned_memory)

\* tensor.squeeze()
RECURSIVE Squeeze(_)
Squeeze(shape) ==
    IF shape = <<>> THEN <<>>
    ELSE (IF shape[1] = 1 THEN <<>> ELSE <<shape[1]>>) \o Squeeze(Tail(shape))

\* fixup_tensor_int8 (l.363-390), dtypes and shapes
fixup_tensor_int8(w, k, ATYPE) ==
    LET N == w[k].shape[1]
        M == w[k].shape[2]
        w1 == Put(w, k, [w[k] EXCEPT !.dtype = T_UINT8])
        w2 == Put(w1, k \o "_mx", Tensor(ATYPE, <<M>>))
        w3 == Put(w2, k \o "_rx", Tensor(ATYPE, <<M>>))
        w4 == Put(w3, k \o "_my", Tensor(ATYPE, <<N, 1>>))
    IN  Put(w4, k \o "_ry", Tensor(ATYPE, <<N, 1>>))

\* l.263-269: the division by 2 ** int(layer_id // RESCALE_LAYER), the
\* squeeze of the .time_ parameters and the transposition of the matrices
Reshape(t, x, layer_id, RESCALE_LAYER) ==
    LET rescaled ==
            IF RESCALE_LAYER > 0
               /\ (In("att.output.weight", x) \/ In("ffn.value.weight", x))
            THEN [t EXCEPT !.div = @ + (layer_id \div RESCALE_LAYER)]
            ELSE t
        squeezed ==
            IF In(".time_", x) THEN [rescaled EXCEPT !.shape = Squeeze(@)]
            ELSE rescaled
    IN  IF In("key.weight", x) \/ In("value.weight", x)
           \/ In("receptance.weight", x) \/ In("output.weight", x)
           \/ In("head.weight", x)
        THEN [squeezed EXCEPT
                !.T = ~squeezed.T,
                !.shape = IF Len(squeezed.shape) = 2
                          THEN <<squeezed.shape[2], squeezed.shape[1]>>
                          ELSE squeezed.shape]
        ELSE squeezed

\* l.271-282, on the tensor t that l.263-269 have left for x
Cast(w, x, t, ATYPE, WTYPE) ==
    IF In(".time_decay", x)
    THEN Put(w, x, [t EXCEPT !.dtype = T_FLOAT, !.negexp = TRUE])
    ELSE IF In(".time_first", x)
    THEN Put(w, x, [t EXCEPT !.dtype = T_FLOAT])
    ELSE IF Len(t.shape) = 2 /\ ~In("emb", x)
    THEN IF WTYPE # T_UINT8
         THEN Put(w, x, [t EXCEPT !.dtype = WTYPE])
         ELSE fixup_tensor_int8(Put(w, x, t), x, ATYPE)
    ELSE Put(w, x, [t EXCEPT !.dtype = ATYPE])

\* l.255-284, with dd = strategy[layer_id]
Convert(w, x, dd, layer_id, RESCALE_LAYER, preconverted, use_pinned_memory) ==
    handle_common_keys(
        IF preconverted THEN w
        ELSE Cast(w, x, Reshape(w[x], x, layer_id, RESCALE_LAYER),
                  dd.atype, dd.wtype),
        x, dd, use_pinned_memory)

\* the loop of l.249-300 over keys, which w holds; one turn (l.250-284) is
\* Convert on strategy[layer_id].  No turn reads what a turn on another key
\* wrote, so the turns are taken in any order: here the keys of one
\* x.split('.')[1] after those of another, which keeps the recursion shallow.
RECURSIVE LoadKeys(_, _, _, _, _, _)
LoadKeys(w, keys, strat_, RESCALE_LAYER, preconverted, use_pinned_memory) ==
    IF keys \cap DOMAIN w = {} THEN w
    ELSE LET x == CHOOSE k \in keys : TRUE
             \* l.251-253
             layer_id == IF In("ln_out.", x) \/ In("head.", x) THEN strat_.n_layer ELSE KeyField[x]
             group == {k \in keys : KeyField[k] = KeyField[x]}
         IN  IF group = keys
             THEN LoadKeys(Convert(w, x, strat_.strategy[layer_id], layer_id,
                                   RESCALE_LAYER, preconverted, use_pinned_memory),
                           keys \ {x}, strat_, RESCALE_LAYER, preconverted,
                           use_pinned_memory)
             ELSE LoadKeys(LoadKeys(w, group, strat_, RESCALE_LAYER, preconverted,
                                    use_pinned_memory),
                           keys \ group, strat_, RESCALE_LAYER, preconverted,
                           use_pinned_memory)

\* l.229-307: what __init__ does once the strategy is built; MODEL_NAME is
\* the name of l.200-202
LoadWeights(name, w0, strat_, preconverted, use_pinned_memory) ==
    LET RESCALE_LAYER ==
            IF Contains(strat_.strategy_string, "fp16") THEN RESCALE_EVERY ELSE 0
    IN  IF "emb.weight" \notin DOMAIN w0
        THEN Fail("KeyError", "emb.weight", <<>>)
        ELSE IF ~preconverted /\ "blocks.0.ln0.weight" \notin DOMAIN w0
        THEN Fail("KeyError", "blocks.0.ln0.weight", <<>>)
        ELSE IF ~preconverted /\ "blocks.0.ln0.bias" \notin DOMAIN w0
        THEN Fail("KeyError", "blocks.0.ln0.bias", <<>>)
        ELSE
        LET n_embd == w0["emb.weight"].shape[2]
            w1 == IF preconverted THEN w0
                  ELSE Del(Del(Put(w0, "emb.weight",
                                   [w0["emb.weight"] EXCEPT !.ln0 = TRUE]),
                               "blocks.0.ln0.weight"),
                           "blocks.0.ln0.bias")
            keys == DOMAIN w1
            stripped == Strip(name)
            w2 == LoadKeys(w1, keys, strat_, RESCALE_LAYER, preconverted,
                           use_pinned_memory)
        IN  IF ~preconverted
               /\ Cardinality(keys) # 4 + (4 + 9 + 5) * strat_.n_layer
            THEN Fail("ValueError", MSG_NOT_RWKV4, <<>>)
            ELSE [built |-> TRUE,
                  exc |-> NoExc,
                  args |-> [MODEL_NAME |-> IF EndsWith(stripped, ".pth") THEN stripped
                                          ELSE stripped \o ".pth",
                            n_layer |-> strat_.n_layer,
                            n_embd |-> n_embd],
                  strategy |-> strat_,
                  RESCALE_LAYER |-> RESCALE_LAYER,
                  preconverted |-> preconverted,
                  w |-> w2]

\* l.209-227: the marker is read, both strategies are built and compared
Construct(name, w0, strategy, n_layer, marker, pstrategy, requested, pinned) ==
    IF marker = None
    THEN IF ~requested.ok THEN Fail(requested.err, requested.msg, <<>>)
         ELSE LoadWeights(name, w0, requested, FALSE, pinned)
    ELSE IF ~StartsWith(marker, IntStr(RWKV_PRECONVERT_FORMAT) \o "|")
    THEN Fail("ValueError", MSG_INCOMPATIBLE_VERSION, <<>>)
    ELSE IF Len(Split(marker, "|")) # 3
    THEN Fail("ValueError", "not enough values to unpack", <<>>)
    ELSE IF ~IsInt(Split(marker, "|")[2])
    THEN Fail("ValueError", "invalid literal for int()", <<>>)
    ELSE IF ~pstrategy.ok
    THEN Fail(pstrategy.err, pstrategy.msg, <<>>)
    ELSE IF strategy = "preconverted"
    THEN LoadWeights(name, w0, pstrategy, TRUE, pinned)
    ELSE IF ~requested.ok
    THEN Fail(requested.err, requested.msg, <<>>)
    ELSE IF ~is_compatible(requested, pstrategy)
    THEN Fail("ValueError", MSG_INCOMPATIBLE_STRATEGY,
              <<pstrategy.strategy_string, pstrategy.n_layer,
                requested.strategy_string, n_layer>>)
    ELSE LoadWeights(name, w0, requested, TRUE, pinned)

\* RWKV.__init__ (l.181-307) on the file f; l.204-207: the file is read and
\* its layers counted
RWKV_init(name, f, strategy_in, use_pinned_memory) ==
    LET n_layer == get_nlayer((DOMAIN f.w) \cup
                       (IF f.marker # None THEN {MARKER_KEY} ELSE {}))
    IN  IF ~STRATEGY_REGEX(Strip(strategy_in))
        THEN Fail("ValueError", MSG_INVALID_STRATEGY, <<>>)
        ELSE Construct(name, TorchLoad(f), Strip(strategy_in), n_layer, f.marker,
                       RWKVStrategy(Split(f.marker, "|")[3],
                                    ToInt(Split(f.marker, "|")[2])),
                       RWKVStrategy(Strip(strategy_in), n_layer),
                       use_pinned_memory)

\* save_preconverted (l.350-358): the file written, or the exception
save_preconverted(self, format, version) ==
    IF format # "pt"
    THEN [ok |-> FALSE,
          exc |-> [type |-> "ValueError",
                   msg |-> "Invalid format " \o format \o " - cannot save",
                   args |-> <<>>]]
    ELSE [ok |-> TRUE,
          file |-> [w |-> self.w,
                    marker |-> IntStr(version) \o "|"
                               \o IntStr(self.strategy.n_layer) \o "|"
                               \o Strip(self.strategy.strategy_string)]]


\* ------------------------------------------------------- int8 weights: values
\* A float is a fraction n/d in lowest terms, an infinity (n is its sign) or
\* NaN.  The arithmetic is IEEE's without rounding: x/0 is an infinity, 0/0
\* and inf - inf are NaN, and NaN goes through every operation.

RECURSIVE GCD(_, _)
GCD(a, b) == IF b = 0 THEN a ELSE GCD(b, a % b)

Abs(n) == IF n < 0 THEN -n ELSE n

Sign(n) == IF n < 0 THEN -1 ELSE IF n > 0 THEN 1 ELSE 0

F(n, d) == [kind |-> "num", n |-> n \div GCD(Abs(n), d), d |-> d \div GCD(Abs(n), d)]

NaN == [kind |-> "nan", n |-> 0, d |-> 1]

Inf(s) == [kind |-> "inf", n |-> s, d |-> 1]

IsNaN(a) == a.kind = "nan"

FSub(a, b) ==
    IF IsNaN(a) \/ IsNaN(b) THEN NaN
    ELSE IF a.kind = "inf" THEN (IF b.kind = "inf" /\ b.n = a.n THEN NaN ELSE a)
    ELSE IF b.kind = "inf" THEN Inf(-b.n)
    ELSE F(a.n * b.d - b.n * a.d, a.d * b.d)

FAdd(a, b) == FSub(a, [b EXCEPT !.n = -b.n])

FMul(a, b) ==
    IF IsNaN(a) \/ IsNaN(b) THEN NaN
    ELSE IF a.kind = "inf" \/ b.kind = "inf"
         THEN (IF a.n = 0 \/ b.n = 0 THEN NaN ELSE Inf(Sign(a.n) * Sign(b.n)))
    ELSE F(a.n * b.n, a.d * b.d)

FDiv(a, b) ==
    IF IsNaN(a) \/ IsNaN(b) THEN NaN
    ELSE IF a.kind = "inf"
         THEN (IF b.kind = "inf" THEN NaN ELSE Inf(IF b.n < 0 THEN -a.n ELSE a.n))
    ELSE IF b.kind = "inf" THEN F(0, 1)
    ELSE IF b.n = 0 THEN (IF a.n = 0 THEN NaN ELSE Inf(Sign(a.n)))
    ELSE F(a.n * b.d * Sign(b.n), a.d * Abs(b.n))

\* a < b; False when either is NaN
FLess(a, b) ==
    IF IsNaN(a) \/ IsNaN(b) THEN FALSE
    ELSE IF a.kind = "inf" THEN a.n < 0 /\ ~(b.kind = "inf" /\ b.n < 0)
    ELSE IF b.kind = "inf" THEN b.n > 0
    ELSE a.n * b.d < b.n * a.d

\* torch.amin and torch.amax give NaN as soon as one element is NaN
FMin(a, b) == IF IsNaN(a) \/ IsNaN(b) THEN NaN ELSE IF FLess(b, a) THEN b ELSE a

FMax(a, b) == IF IsNaN(a) \/ IsNaN(b) THEN NaN ELSE IF FLess(a, b) THEN b ELSE a

RECURSIVE Amin(_, _)
Amin(xs, n) == IF n = 1 THEN xs[1] ELSE FMin(Amin(xs, n - 1), xs[n])

RECURSIVE Amax(_, _)
Amax(xs, n) == IF n = 1 THEN xs[1] ELSE FMax(Amax(xs, n - 1), xs[n])

\* torch.amin(w, dim=dim), torch.amax(w, dim=dim): one value a column when
\* dim is 0; one a row when it is 1, where the code adds .unsqueeze(1)
amin(w, dim) ==
    IF dim = 0
    THEN [j \in 1..Len(w[1]) |-> Amin([i \in 1..Len(w) |-> w[i][j]], Len(w))]
    ELSE [i \in 1..Len(w) |-> Amin(w[i], Len(w[i]))]

amax(w, dim) ==
    IF dim = 0
    THEN [j \in 1..Len(w[1]) |-> Amax([i \in 1..Len(w) |-> w[i][j]], Len(w))]
    ELSE [i \in 1..Len(w) |-> Amax(w[i], Len(w[i]))]

\* w - v and w / v.  A [M] vector (dim 0: mx, rx) broadcasts along the rows,
\* a [N, 1] tensor (dim 1: my, ry) along the columns.
Broadcast(op, w, v, dim) ==
    [i \in 1..Len(w) |->
        [j \in 1..Len(w[1]) |->
            LET b == IF dim = 0 THEN v[j] ELSE v[i]
            IN  IF op = "-" THEN FSub(w[i][j], b) ELSE FDiv(w[i][j], b)]]

\* .to(dtype=torch.uint8): the byte of a NaN is undefined, nan_byte is the
\* one this build gives
ToUint8(a, nan_byte) == IF IsNaN(a) THEN nan_byte ELSE a.n

\* the last four divisions and the packing, the offsets being taken:
\* torch.clip(torch.floor(w * 256), min=0, max=255).to(dtype=torch.uint8),
\* and rx / 16, ry / 16
Scale(w, mx, my, rx, nan_byte) ==
    LET w3 == Broadcast("/", w, rx, 0)
        ry == amax(w3, 1)
        w4 == Broadcast("/", w3, ry, 1)
        floor(a) == IF a.kind = "num" THEN F(a.n \div a.d, 1) ELSE a
        \* torch.clip(a, min=lo, max=hi): NaN stays NaN
        clip(a, lo, hi) ==
            IF IsNaN(a) THEN a ELSE FMin(FMax(a, F(lo, 1)), F(hi, 1))
        byte(a) == ToUint8(clip(floor(FMul(a, F(256, 1))), 0, 255), nan_byte)
    IN  [w  |-> [i \in 1..Len(w) |-> [j \in 1..Len(w[1]) |-> byte(w4[i][j])]],
         mx |-> mx,
         rx |-> [j \in 1..Len(rx) |-> FDiv(rx[j], F(16, 1))],
         my |-> my,
         ry |-> [i \in 1..Len(ry) |-> FDiv(ry[i], F(16, 1))]]

\* fixup_tensor_int8 on the values of w[k]: the byte matrix and its four
\* vectors.  The inputs are floats that ATYPE holds, so .to(ATYPE) keeps them.
\* shape[0] > shape[1]: the row minima first, then the column minima;
\* otherwise the column minima first, then the row minima.
fixup_tensor_int8_values(w, nan_byte) ==
    IF Len(w) > Len(w[1])
    THEN LET my == amin(w, 1)
             w1 == Broadcast("-", w, my, 1)
             mx == amin(w1, 0)
             w2 == Broadcast("-", w1, mx, 0)
         IN  Scale(w2, mx, my, amax(w2, 0), nan_byte)
    ELSE LET mx == amin(w, 0)
             w1 == Broadcast("-", w, mx, 0)
             my == amin(w1, 1)
             w2 == Broadcast("-", w1, my, 1)
         IN  Scale(w2, mx, my, amax(w2, 0), nan_byte)

\* mm8_one, mm8_seq: the matrix x is multiplied by,
\* (w.to(dtype=x.dtype) + 0.5) * ry * rx + my + mx
mm8_matrix(w, mx, rx, my, ry) ==
    [i \in 1..Len(w) |->
        [j \in 1..Len(w[1]) |->
            FAdd(FAdd(FMul(FMul(FAdd(F(w[i][j], 1), F(1, 2)), ry[i]), rx[j]),
                      my[i]), mx[j])]]

\* ------------------------------------------------------------------ forward
\* A tensor's value is the term that computes it: <<op, operand, ...>>, over
\* the weights <<"w", key>>, the rows of the embedding and the entries of the
\* state a caller hands in.  Two values are equal when the same operations
\* were applied to the same operands; the rounding of a kernel is not
\* modelled.  A 1-D tensor is one term, a 2-D activation a sequence of them,
\* one a token, and the token list is a sequence too: tokens[0] is tokens[1].
\* RWKV_CUDA_ON is off, as it is unless the environment sets it: ATT is
\* att_seq or att_one, and mm8_seq and mm8_one are the formula of the code.

W(k) == <<"w", k>>

\* x.to(dtype=...), x.float()
To(x, dtype) == <<"to", dtype, x>>

Add(a, b) == <<"add", a, b>>

Sub(a, b) == <<"sub", a, b>>

Mul(a, b) == <<"mul", a, b>>

Div(a, b) == <<"div", a, b>>

Maximum(a, b) == <<"maximum", a, b>>

Exp(a) == <<"exp", a>>

Sigmoid(a) == <<"sigmoid", a>>

MatMul(x, m) == <<"matmul", x, m>>

layer_norm(x, weight, bias) == <<"layer_norm", x, weight, bias>>

\* mm8_one and mm8_seq on one row x of dtype xdtype
mm8_one(x, xdtype, w, mx, rx, my, ry) == MatMul(x, Add(Add(Mul(Mul(Add(To(w, xdtype), <<"0.5">>), ry), rx), my), mx))

\* rx @ rw, or self.mm8_one(rx, rw, rmx, rrx, rmy, rry) in the _i8 twin of a
\* function: k is the key of rw, and x.dtype is the layer's atype
MM(x, xdtype, k, i8) ==
    IF i8
    THEN mm8_one(x, xdtype, W(k), W(k \o "_mx"), W(k \o "_rx"), W(k \o "_my"), W(k \o "_ry"))
    ELSE MatMul(x, W(k))

\* xx * k_mix + sx * (1 - k_mix)
Mix(xx, sx, mix) == Add(Mul(xx, mix), Mul(sx, Sub(<<"1">>, mix)))

\* torch.cat((sx.unsqueeze(0), xx[:-1,:])): row t is the row before row t
TokenShift_Dropped(sx, xx) == xx

TokenShift(sx, xx) == [t \in 1..Len(xx) |-> IF t = 1 THEN sx ELSE xx[t - 1]]

\* ffn_one, ffn_one_i8: <<x + out, xx>>
ffn_one(x, xdtype, sx, ln_w, ln_b, k_mix, r_mix, kw, vw, rw, i8) ==
    LET xx == layer_norm(x, ln_w, ln_b)
        kx == Mix(xx, sx, k_mix)
        rx == Mix(xx, sx, r_mix)
        r == Sigmoid(MM(rx, xdtype, rw, i8))
        vx == <<"square", <<"relu", MM(kx, xdtype, kw, i8)>>>>
        out == Mul(r, MM(vx, xdtype, vw, i8))
    IN  <<Add(x, out), xx>>

\* ffn_seq, ffn_seq_i8: <<x + out, xx[-1,:]>>
ffn_seq(x, xdtype, sx0, ln_w, ln_b, k_mix, r_mix, kw, vw, rw, i8) ==
    LET T == Len(x)
        xx == [t \in 1..T |-> layer_norm(x[t], ln_w, ln_b)]
        sx == TokenShift(sx0, xx)
        kx == [t \in 1..T |-> Mix(xx[t], sx[t], k_mix)]
        rx == [t \in 1..T |-> Mix(xx[t], sx[t], r_mix)]
        r == [t \in 1..T |-> Sigmoid(MM(rx[t], xdtype, rw, i8))]
        vx == [t \in 1..T |-> <<"square", <<"relu", MM(kx[t], xdtype, kw, i8)>>>>]
        out == [t \in 1..T |-> Mul(r[t], MM(vx[t], xdtype, vw, i8))]
    IN  <<[t \in 1..T |-> Add(x[t], out[t])], xx[T]>>

\* the output step with the key alone, not time_first + key, as the scale
WKV_KeyScale(aa, bb, pp, k, v, t_first) ==
    LET ww == Add(t_first, k)
        p == Maximum(pp, k)
        e1 == Exp(Sub(pp, p))
        e2 == Exp(Sub(ww, p))
    IN  Div(Add(Mul(e1, aa), Mul(e2, v)), Add(Mul(e1, bb), e2))

\* ww = t_first + k ... wkv = (e1 * aa + e2 * v) / (e1 * bb + e2)
WKV(aa, bb, pp, k, v, t_first) ==
    LET ww == Add(t_first, k)
        p == Maximum(pp, ww)
        e1 == Exp(Sub(pp, p))
        e2 == Exp(Sub(ww, p))
    IN  Div(Add(Mul(e1, aa), Mul(e2, v)), Add(Mul(e1, bb), e2))

\* ww = t_decay + pp ...: <<e1 * aa + e2 * v, e1 * bb + e2, p>>
Advance(aa, bb, pp, k, v, t_decay) ==
    LET ww == Add(t_decay, pp)
        p == Maximum(ww, k)
        e1 == Exp(Sub(ww, p))
        e2 == Exp(Sub(k, p))
    IN  <<Add(Mul(e1, aa), Mul(e2, v)), Add(Mul(e1, bb), e2), p>>

\* att_one, att_one_i8: <<x + out, xx, aa, bb, pp>>
att_one(x, xdtype, sx, aa, bb, pp, ln_w, ln_b, k_mix, v_mix, r_mix, t_decay, t_first, kw, vw, rw, ow, i8) ==
    LET xx == layer_norm(x, ln_w, ln_b)
        kx == Mix(xx, sx, k_mix)
        vx == Mix(xx, sx, v_mix)
        rx == Mix(xx, sx, r_mix)
        r == Sigmoid(MM(rx, xdtype, rw, i8))
        k == To(MM(kx, xdtype, kw, i8), T_FLOAT)
        v == To(MM(vx, xdtype, vw, i8), T_FLOAT)
        wkv == To(WKV(aa, bb, pp, k, v, t_first), xdtype)
        out == MM(Mul(r, wkv), xdtype, ow, i8)
    IN  <<Add(x, out), xx>> \o Advance(aa, bb, pp, k, v, t_decay)

\* the loop with the two steps of a turn exchanged: the output of token t
\* taken from the accumulators token t has already been added to
RECURSIVE WkvLoop_AdvanceFirst(_, _, _, _, _, _, _, _, _)
WkvLoop_AdvanceFirst(t, T, k, v, sx, acc, xdtype, t_decay, t_first) ==
    IF t > T THEN <<sx>> \o acc
    ELSE LET next == Advance(acc[1], acc[2], acc[3], k[t], v[t], t_decay)
         IN  WkvLoop_AdvanceFirst(t + 1, T, k, v, [sx EXCEPT ![t] = To(WKV(next[1], next[2], next[3], k[t], v[t], t_first), xdtype)], next, xdtype, t_decay, t_first)

\* for t in range(T): sx[t] = ...; aa = ...; bb = ...; pp = p
\* acc is <<aa, bb, pp>>; the loop leaves <<sx, aa, bb, pp>>
RECURSIVE WkvLoop(_, _, _, _, _, _, _, _, _)
WkvLoop(t, T, k, v, sx, acc, xdtype, t_decay, t_first) ==
    IF t > T THEN <<sx>> \o acc
    ELSE WkvLoop(t + 1, T, k, v, [sx EXCEPT ![t] = To(WKV(acc[1], acc[2], acc[3], k[t], v[t], t_first), xdtype)], Advance(acc[1], acc[2], acc[3], k[t], v[t], t_decay), xdtype, t_decay, t_first)

\* att_seq, att_seq_i8: <<x + out, xx[-1,:], aa, bb, pp>>
att_seq(x, xdtype, sx0, aa, bb, pp, ln_w, ln_b, k_mix, v_mix, r_mix, t_decay, t_first, kw, vw, rw, ow, i8) ==
    LET T == Len(x)
        xx == [t \in 1..T |-> layer_norm(x[t], ln_w, ln_b)]
        sx == TokenShift(sx0, xx)
        kx == [t \in 1..T |-> Mix(xx[t], sx[t], k_mix)]
        vx == [t \in 1..T |-> Mix(xx[t], sx[t], v_mix)]
        rx == [t \in 1..T |-> Mix(xx[t], sx[t], r_mix)]
        r == [t \in 1..T |-> Sigmoid(MM(rx[t], xdtype, rw, i8))]
        k == [t \in 1..T |-> To(MM(kx[t], xdtype, kw, i8), T_FLOAT)]
        v == [t \in 1..T |-> To(MM(vx[t], xdtype, vw, i8), T_FLOAT)]
        loop == WkvLoop(1, T, k, v, sx, <<aa, bb, pp>>, xdtype, t_decay, t_first)
        out == [t \in 1..T |-> MM(Mul(r[t], loop[1][t]), xdtype, ow, i8)]
    IN  <<[t \in 1..T |-> Add(x[t], out[t])], xx[T], loop[2], loop[3], loop[4]>>

\* state == None
NoState == <<>>

\* the state forward makes when it is given None
RECURSIVE FreshState(_, _)
FreshState(self, i) ==
    IF i = 0 THEN <<>>
    ELSE LET atype == self.strategy.strategy[i - 1].atype
             j == (i - 1) * 5
             zeros == <<"zeros", T_FLOAT>>
         IN  (j :> <<"zeros", atype>>) @@ (j + 1 :> zeros) @@ (j + 2 :> zeros) @@ (j + 3 :> Sub(zeros, <<"1e30">>)) @@ (j + 4 :> <<"zeros", atype>>) @@ FreshState(self, i - 1)

\* l.725-726: whether x is halved after block i
Rescales_BeforeBlock(RESCALE_LAYER, i) ==
    RESCALE_LAYER > 0 /\ i % RESCALE_LAYER = 0

Rescales(RESCALE_LAYER, i) ==
    RESCALE_LAYER > 0 /\ (i + 1) % RESCALE_LAYER = 0

\* x, state[i*5+4] = FFN(...), then the halving: [x, state] after layer i
AfterFfn(self, f, state, i, seq_mode) ==
    [x |-> IF Rescales(self.RESCALE_LAYER, i)
           THEN (IF seq_mode THEN [t \in 1..Len(f[1]) |-> Div(f[1][t], <<"2">>)] ELSE Div(f[1], <<"2">>))
           ELSE f[1],
     state |-> (i * 5 + 4 :> f[2]) @@ state]

\* x, state[i*5+0], state[i*5+1], state[i*5+2], state[i*5+3] = ATT(...)
AfterAtt(self, a, dd, state, i, bbb, ffn, seq_mode) ==
    AfterFfn(self,
             IF seq_mode
             THEN ffn_seq(a[1], dd.atype, state[i * 5 + 4], W(bbb \o "ln2.weight"), W(bbb \o "ln2.bias"), W(ffn \o "time_mix_k"), W(ffn \o "time_mix_r"), ffn \o "key.weight", ffn \o "value.weight", ffn \o "receptance.weight", dd.wtype = T_UINT8)
             ELSE ffn_one(a[1], dd.atype, state[i * 5 + 4], W(bbb \o "ln2.weight"), W(bbb \o "ln2.bias"), W(ffn \o "time_mix_k"), W(ffn \o "time_mix_r"), ffn \o "key.weight", ffn \o "value.weight", ffn \o "receptance.weight", dd.wtype = T_UINT8),
             (i * 5 :> a[2]) @@ (i * 5 + 1 :> a[3]) @@ (i * 5 + 2 :> a[4]) @@ (i * 5 + 3 :> a[5]) @@ state, i, seq_mode)

\* one turn of `for i in range(args.n_layer)`, x being x.to(dtype=atype)
Block(self, x, dd, state, i, bbb, att, seq_mode) ==
    AfterAtt(self,
             IF seq_mode
             THEN att_seq(x, dd.atype, state[i * 5], state[i * 5 + 1], state[i * 5 + 2], state[i * 5 + 3], W(bbb \o "ln1.weight"), W(bbb \o "ln1.bias"), W(att \o "time_mix_k"), W(att \o "time_mix_v"), W(att \o "time_mix_r"), W(att \o "time_decay"), W(att \o "time_first"), att \o "key.weight", att \o "value.weight", att \o "receptance.weight", att \o "output.weight", dd.wtype = T_UINT8)
             ELSE att_one(x, dd.atype, state[i * 5], state[i * 5 + 1], state[i * 5 + 2], state[i * 5 + 3], W(bbb \o "ln1.weight"), W(bbb \o "ln1.bias"), W(att \o "time_mix_k"), W(att \o "time_mix_v"), W(att \o "time_mix_r"), W(att \o "time_decay"), W(att \o "time_first"), att \o "key.weight", att \o "value.weight", att \o "receptance.weight", att \o "output.weight", dd.wtype = T_UINT8),
             dd, state, i, bbb, bbb \o "ffn.", seq_mode)

\* the layers i..n_layer-1, from the x and the state the layers before left;
\* a layer starts with x = x.to(dtype=atype, device=dev), of one row or of each
RECURSIVE Blocks(_, _, _, _)
Blocks(self, xs, i, seq_mode) ==
    IF i >= self.args.n_layer THEN xs
    ELSE Blocks(self, Block(self, IF seq_mode THEN [t \in 1..Len(xs.x) |-> To(xs.x[t], self.strategy.strategy[i].atype)] ELSE To(xs.x, self.strategy.strategy[i].atype), self.strategy.strategy[i], xs.state, i, "blocks." \o IntStr(i) \o ".", "blocks." \o IntStr(i) \o ".att.", seq_mode), i + 1, seq_mode)

\* ln_out and the head on one row, then x.float()
HeadOf(self, x, xdtype) == To(MM(layer_norm(To(x, xdtype), W("ln_out.weight"), W("ln_out.bias")), xdtype, "head.weight", self.w["head.weight"].dtype = T_UINT8), T_FLOAT)

\* x = x[-1,:] if (seq_mode and (not full_output)) else x ... return x.float(), state
Result(self, xs, dd, seq_mode, full_output) ==
    [out |-> IF seq_mode /\ ~full_output THEN [ndim |-> 1, rows |-> <<HeadOf(self, xs.x[Len(xs.x)], dd.atype)>>]
             ELSE IF seq_mode THEN [ndim |-> 2, rows |-> [t \in 1..Len(xs.x) |-> HeadOf(self, xs.x[t], dd.atype)]]
             ELSE [ndim |-> 1, rows |-> <<HeadOf(self, xs.x, dd.atype)>>],
     state |-> xs.state]

\* x = w['emb.weight'][tokens if seq_mode else tokens[0]], and the layers
Forward(self, tokens, state, seq_mode, full_output) ==
    Result(self, Blocks(self, [x |-> IF seq_mode THEN [t \in 1..Len(tokens) |-> <<"emb", tokens[t]>>] ELSE <<"emb", tokens[1]>>, state |-> state], 0, seq_mode), self.strategy.strategy[self.args.n_layer], seq_mode, full_output)

\* self.forward(tokens, state, full_output): [out |-> x.float(), state]
forward(self, tokens, state, full_output) == Forward(self, tokens, IF state = NoState THEN FreshState(self, self.args.n_layer) ELSE state, Len(tokens) > 1, full_output)

\* ------------------------------------------------------------------ state
VARIABLES
    pc,            \* the step the program is at
    strategy_arg,  \* the strategy string the caller passes
    n_layer_arg,   \* the layer count the caller passes to RWKVStrategy
    strat,         \* the RWKVStrategy built, or the exception raised
    other_arg,     \* a second strategy string, and
    other_n,       \*   its layer count, and
    other,         \*   the RWKVStrategy built from them
    verdict,       \* what is_compatible returned
    file,          \* the checkpoint file: its tensors and its marker
    use_pinned_memory, \* the flag the caller passes to RWKV(...)
    model,         \* the RWKV object constructed: args, strategy, w
    exc,           \* the exception the last call raised, or NoExc
    matrix,        \* a 2-D weight, as fixup_tensor_int8 receives it
    packed,        \* what fixup_tensor_int8 leaves: w, mx, rx, my, ry
    restored,      \* the matrix mm8_one multiplies by
    tokens,        \* the token list a caller feeds to forward
    state0,        \* the state the caller starts from, NoState for None
    fed,           \* how many of them have been fed one at a time
    state_one,     \* the state list threaded through those calls
    out_one,       \* what the last of those calls returned
    seq_called,    \* whether forward has been called on the whole list
    state_seq,     \* the state list given to that call
    out_seq,       \* what that call returned
    blk,           \* a forward call followed block by block: the i of its loop
    halvings,      \* how many times that call has done x = x / 2
    x_exp,         \* e when x is the unrescaled residual / 2^e, or -1
    ran,           \* per block that has run, the halvings done before it
    caller,        \* the state list the caller passed (<<>> for None): per
                   \* entry, "prior" or "call" for a tensor made by this call
    issued,        \* per block that has run, the device each weight given to
                   \* ATT and FFN was on
    wkv            \* the recurrence of one channel on numbers: its pp, and
                   \* the arguments of the exp calls of the last token

planVars == <<strategy_arg, n_layer_arg, strat>>
compatVars == <<other_arg, other_n, other, verdict>>
loadVars == <<file, use_pinned_memory, model, exc>>
quantVars == <<matrix, packed, restored>>
fwdVars == <<tokens, state0, fed, state_one, out_one, seq_called, state_seq, out_seq>>

runVars == <<blk, halvings, x_exp, ran, caller, issued>>

vars == <<pc, planVars, compatVars, loadVars, quantVars, fwdVars, runVars, wkv>>

Unbuilt == [ok |-> FALSE, err |-> "unbuilt", msg |-> None]

\* ---------------------------------------------------- the caller's inputs
\* Descriptors are written as a caller writes them: segments joined by
\* " -> ", each "device dtype" with an optional " *count" and "+".
RECURSIVE DescriptorsOf(_)
DescriptorsOf(k) ==
    LET words == <<"cpu fp32", "cuda fp16", "cuda fp16i8", "cpu bf16">>
        word == words[((k - 1) % Len(words)) + 1]
        counts == {""} \cup {" *" \o IntStr(c) : c \in 0..MaxCount}
                       \cup {" *" \o IntStr(c) \o "+" : c \in 0..MaxCount}
    IN  IF k = 1 THEN {word \o cw : cw \in counts}
        ELSE {d \o " -> " \o word \o cw : d \in DescriptorsOf(k - 1), cw \in counts}

\* ------------------------------------------- the planner, called by itself
\* the variables a specification does not use stay as they are here
NoModel == [built |-> FALSE]
NoOut == [ndim |-> 0, rows |-> <<>>]

Idle(part) ==
    IF part = "plan" THEN
        strategy_arg = "" /\ n_layer_arg = 0 /\ strat = Unbuilt
    ELSE IF part = "compat" THEN
        other_arg = "" /\ other_n = 0 /\ other = Unbuilt /\ verdict = None
    ELSE IF part = "load" THEN
        /\ file = [w |-> <<>>, marker |-> None]
        /\ use_pinned_memory = FALSE /\ model = NoModel /\ exc = NoExc
    ELSE IF part = "quant" THEN
        matrix = <<>> /\ packed = <<>> /\ restored = <<>>
    ELSE IF part = "run" THEN
        /\ blk = 0 /\ halvings = 0 /\ x_exp = 0 /\ ran = <<>>
        /\ caller = <<>> /\ issued = <<>>
    ELSE IF part = "wkv" THEN
        wkv = <<>>
    ELSE
        /\ tokens = <<>> /\ state0 = NoState /\ fed = 0 /\ seq_called = FALSE
        /\ state_one = <<>> /\ out_one = NoOut
        /\ state_seq = <<>> /\ out_seq = NoOut

PlanInit ==
    /\ pc = "plan"
    /\ strategy_arg \in UNION {DescriptorsOf(k) : k \in 1..MaxSeg}
    /\ n_layer_arg \in 1..MaxNLayer
    /\ strat = Unbuilt
    /\ Idle("compat")
    /\ Idle("load")
    /\ Idle("quant")
    /\ Idle("fwd")
    /\ Idle("run")
    /\ Idle("wkv")

\* strategy = RWKVStrategy(strategy_arg, n_layer_arg)
BuildStrategy ==
    /\ pc = "plan"
    /\ strat' = RWKVStrategy(strategy_arg, n_layer_arg)
    /\ pc' = "planned"
    /\ UNCHANGED <<strategy_arg, n_layer_arg, compatVars, loadVars, quantVars, fwdVars, runVars, wkv>>

SpecPlan == PlanInit /\ [][BuildStrategy]_vars

\* ---------------------------------------- is_compatible, called by itself
CompatMaxLayer == 2

CompatDescriptors ==
    LET words == {"cpu fp32", "cuda fp32", "cuda fp16", "cuda fp16i8"}
        segments == {w \o c : w \in words, c \in {"", " *1+"}}
    IN  segments \cup {a \o " -> " \o b : a \in segments, b \in segments}

CompatInit ==
    /\ pc = "pair"
    /\ strategy_arg \in CompatDescriptors
    /\ n_layer_arg \in 1..CompatMaxLayer
    /\ other_arg \in CompatDescriptors
    /\ other_n \in 1..CompatMaxLayer
    /\ strat = Unbuilt
    /\ other = Unbuilt
    /\ verdict = None
    /\ Idle("load")
    /\ Idle("quant")
    /\ Idle("fwd")
    /\ Idle("run")
    /\ Idle("wkv")

\* self = RWKVStrategy(...); other = RWKVStrategy(...)
BuildPair ==
    /\ pc = "pair"
    /\ strat' = RWKVStrategy(strategy_arg, n_layer_arg)
    /\ other' = RWKVStrategy(other_arg, other_n)
    /\ pc' = "built"
    /\ UNCHANGED <<strategy_arg, n_layer_arg, other_arg, other_n, verdict, loadVars, quantVars, fwdVars, runVars, wkv>>

\* self.is_compatible(other)
Compare ==
    /\ pc = "built"
    /\ strat.ok /\ other.ok
    /\ verdict' = IF is_compatible(strat, other) THEN "True" ELSE "False"
    /\ pc' = "compared"
    /\ UNCHANGED <<planVars, other_arg, other_n, other, loadVars, quantVars, fwdVars, runVars, wkv>>

CompatNext == BuildPair \/ Compare

SpecCompat == CompatInit /\ [][CompatNext]_vars


\* ------------------------------------------------- loading and saving
MODEL_FILE == "RWKV-4-Pile-169M"

\* the descriptors a caller may pass to RWKV(...): well-formed ones, the
\* reserved word of l.218, and malformed ones
LoadDescriptors ==
    LET only == {"cpu fp32", "cuda fp16", "cuda fp16i8", "cpu bf16", "cuda fp16i4"}
        first == {"cpu fp32", "cuda fp16i8"}
        last == {"cuda fp16", "cpu fp32"}
    IN  {a \o c : a \in only, c \in {"", " *0+"}}
          \cup {a \o c \o " -> " \o b \o e :
                  a \in first, c \in {"", " *0", " *1", " *1+"},
                  b \in last, e \in {"", " *1+"}}
          \cup {"preconverted", "", "cpu", "cpu fp64", "cuda fp16 *",
                "cpu fp32 1", "-> cpu fp32", " cpu fp32 "}

Init ==
    /\ pc = "start"
    \* the checkpoints a caller may hold: a complete RWKV-4 one, one with a
    \* parameter missing, one with a parameter too many
    /\ file \in UNION {{Checkpoint(FreshKeys(n))}
                         \cup {Checkpoint(FreshKeys(n) \ {k}) : k \in FreshKeys(n)}
                         \cup {Checkpoint(FreshKeys(n) \cup {ExtraKey})}
                       : n \in 1..MaxBlocks}
    /\ use_pinned_memory = FALSE
    /\ model = NoModel
    /\ exc = NoExc
    /\ Idle("plan")
    /\ Idle("compat")
    /\ Idle("quant")
    /\ Idle("fwd")
    /\ Idle("run")
    /\ Idle("wkv")

\* model = RWKV(MODEL_FILE, d, pinned)
Load(d, pinned) ==
    /\ pc \in {"start", "saved"}
    /\ LET r == RWKV_init(MODEL_FILE, file, d, pinned)
       IN  IF r.built
           THEN model' = r /\ exc' = NoExc /\ pc' = "loaded"
           ELSE model' = NoModel /\ exc' = r.exc /\ pc' = "failed"
    /\ strategy_arg' = d
    /\ use_pinned_memory' = pinned
    /\ UNCHANGED <<file, n_layer_arg, strat, compatVars, quantVars, fwdVars, runVars, wkv>>

\* model.save_preconverted(MODEL_FILE, format), of a model loaded from a
\* fresh checkpoint
SavePreconverted(format) ==
    /\ pc = "loaded"
    /\ ~model.preconverted
    /\ LET r == save_preconverted(model, format, RWKV_PRECONVERT_FORMAT)
       IN  IF r.ok
           THEN file' = r.file /\ exc' = NoExc /\ pc' = "saved"
           ELSE file' = file /\ exc' = r.exc /\ pc' = "failed"
    /\ UNCHANGED <<model, use_pinned_memory, planVars, compatVars, quantVars, fwdVars, runVars, wkv>>

\* the same, by a release whose RWKV_PRECONVERT_FORMAT has been incremented
SaveByNextRelease ==
    /\ pc = "loaded"
    /\ ~model.preconverted
    /\ file' = save_preconverted(model, "pt", RWKV_PRECONVERT_FORMAT + 1).file
    /\ exc' = NoExc
    /\ pc' = "saved"
    /\ UNCHANGED <<model, use_pinned_memory, planVars, compatVars, quantVars, fwdVars, runVars, wkv>>

Next ==
    \* use_pinned_memory only matters to a strategy that streams (l.315-320)
    \/ \E d \in LoadDescriptors :
          \E pinned \in (IF Contains(d, "+") THEN BOOLEAN ELSE {TRUE}) : Load(d, pinned)
    \/ \E format \in {"pt", "safetensors"} : SavePreconverted(format)
    \/ SaveByNextRelease

Spec == Init /\ [][Next]_vars


\* ------------------------------------------------- the int8 codec, by itself
MaxEntry == 2

QuantInit ==
    /\ pc = "weight"
    /\ matrix \in UNION {[1..s[1] -> [1..s[2] -> {F(n, 1) : n \in 0..MaxEntry}]] :
                         s \in {<<2, 2>>, <<3, 2>>, <<2, 3>>}}
    /\ packed = <<>>
    /\ restored = <<>>
    /\ Idle("plan")
    /\ Idle("compat")
    /\ Idle("load")
    /\ Idle("fwd")
    /\ Idle("run")
    /\ Idle("wkv")

\* self.fixup_tensor_int8(k, ATYPE)
Fixup(nan_byte) ==
    /\ pc = "weight"
    /\ packed' = fixup_tensor_int8_values(matrix, nan_byte)
    /\ pc' = "int8"
    /\ UNCHANGED <<matrix, restored, planVars, compatVars, loadVars, fwdVars, runVars, wkv>>

\* the matrix inside mm8_one(x, w, mx, rx, my, ry)
Dequantize ==
    /\ pc = "int8"
    /\ restored' = mm8_matrix(packed.w, packed.mx, packed.rx, packed.my, packed.ry)
    /\ pc' = "restored"
    /\ UNCHANGED <<matrix, packed, planVars, compatVars, loadVars, fwdVars, runVars, wkv>>

\* the byte a NaN is converted to is 0 on one build and 255 on another
QuantNext ==
    \/ \E nan_byte \in {0, 255} : Fixup(nan_byte)
    \/ Dequantize

SpecQuant == QuantInit /\ [][QuantNext]_vars

\* --------------------------------------------------- forward, on a model
MaxT == 3

FwdMaxLayer == 2

\* a state list of entries a caller made: any five tensors a layer
GivenState(n_layer) == [j \in 0..n_layer * 5 - 1 |-> <<"state", j>>]

FwdInit ==
    /\ pc = "fwd"
    /\ file \in {Checkpoint(FreshKeys(n)) : n \in 1..FwdMaxLayer}
    /\ strategy_arg \in {"cpu fp32", "cuda fp16i8", "cuda fp16i8 *1 -> cpu fp32"}
    /\ use_pinned_memory = FALSE
    /\ model = RWKV_init(MODEL_FILE, file, strategy_arg, use_pinned_memory)
    /\ exc = NoExc
    /\ n_layer_arg = 0 /\ strat = Unbuilt
    /\ Idle("compat")
    /\ Idle("quant")
    /\ Idle("run")
    /\ Idle("wkv")
    \* the first and the last row of emb.weight
    /\ tokens \in UNION {[1..T -> {0, N_VOCAB - 1}] : T \in 1..MaxT}
    /\ state0 \in {NoState, GivenState(model.args.n_layer)}
    /\ state_one = state0
    /\ state_seq = state0
    /\ fed = 0 /\ out_one = NoOut
    /\ seq_called = FALSE /\ out_seq = NoOut

\* out, state = ...: the caller keeps what forward returned
Fed(r) == out_one' = r.out /\ state_one' = r.state

\* out, state = model.forward([tokens[fed]], state)
ForwardOne ==
    /\ pc = "fwd"
    /\ fed < Len(tokens)
    /\ Fed(forward(model, <<tokens[fed + 1]>>, state_one, FALSE))
    /\ fed' = fed + 1
    /\ UNCHANGED <<pc, tokens, state0, seq_called, state_seq, out_seq, planVars, compatVars, loadVars, quantVars, runVars, wkv>>

Called(r) == out_seq' = r.out /\ state_seq' = r.state

\* out, state = model.forward(tokens, state, full_output)
ForwardSeq(full_output) ==
    /\ pc = "fwd"
    /\ ~seq_called
    /\ Called(forward(model, tokens, state_seq, full_output))
    /\ seq_called' = TRUE
    /\ UNCHANGED <<pc, tokens, state0, fed, state_one, out_one, planVars, compatVars, loadVars, quantVars, runVars, wkv>>

FwdNext ==
    \/ ForwardOne
    \/ \E full_output \in BOOLEAN : ForwardSeq(full_output)

SpecFwd == FwdInit /\ [][FwdNext]_vars

\* --------------------------- the recurrence of att_one, on numbers
\* aa, bb, pp, k and v are tensors of one number a channel, and the
\* recurrence runs channel by channel: here is one channel, with integers for
\* the numbers the exponents are made of (pp, k, time_first, time_decay).
\* The value of a term made of them:
RECURSIVE Eval(_)
Eval(t) ==
    IF t[1] = "num" THEN t[2]
    ELSE IF t[1] = "add" THEN Eval(t[2]) + Eval(t[3])
    ELSE IF t[1] = "sub" THEN Eval(t[2]) - Eval(t[3])
    ELSE IF Eval(t[2]) >= Eval(t[3]) THEN Eval(t[2]) ELSE Eval(t[3])

\* the arguments of the torch.exp calls that make up a term
RECURSIVE ExpArgs(_)
ExpArgs(t) ==
    IF t[1] \in {"num", "state"} THEN {}
    ELSE IF t[1] = "exp" THEN {Eval(t[2])}
    ELSE UNION {ExpArgs(t[j]) : j \in 2..Len(t)}

\* pp is -1e30 in a fresh state (l.627), here -(MaxKey ^ 3)
WkvInit ==
    /\ pc = "wkv"
    /\ wkv \in [t_first : {-MaxKey, -1, 0, 1, MaxKey},
                t_decay : {-MaxKey, -1, 0, 1, MaxKey},
                pp : {-(MaxKey * MaxKey * MaxKey), -1, 0, MaxKey},
                k : {0}, n : {0}, out : {{}}, adv : {{}}]
    /\ Idle("plan")
    /\ Idle("compat")
    /\ Idle("load")
    /\ Idle("quant")
    /\ Idle("fwd")
    /\ Idle("run")

\* one token through l.474-482 (l.529-540 in att_seq), its key being k
WkvStep(k) ==
    /\ pc = "wkv"
    /\ wkv.n < MaxT
    /\ LET aa == <<"state", 1>>
           bb == <<"state", 2>>
           v == <<"state", 3>>
           advance == Advance(aa, bb, <<"num", wkv.pp>>, <<"num", k>>, v, <<"num", wkv.t_decay>>)
       IN  wkv' = [wkv EXCEPT !.out = ExpArgs(WKV(aa, bb, <<"num", wkv.pp>>, <<"num", k>>, v, <<"num", wkv.t_first>>)),
                              !.adv = ExpArgs(advance[1]) \cup ExpArgs(advance[2]),
                              !.pp = Eval(advance[3]),
                              !.k = k,
                              !.n = wkv.n + 1]
    /\ UNCHANGED <<pc, planVars, compatVars, loadVars, quantVars, fwdVars, runVars>>

SpecWkv == WkvInit /\ [][\E k \in {-MaxKey, -1, 0, 1, MaxKey} : WkvStep(k)]_vars

\* ------------------------------------- forward, followed block by block
\* One call of forward on a freshly loaded model, a turn of its loop at a
\* time.  Of the residual x only its scale is kept: x_exp is e when x is the
\* x of the same call on the weights as they are without RESCALE_LAYER,
\* divided by 2^e.  layer_norm takes the scale out of x, so what ATT and FFN
\* add to x has the scale of the matrix they multiply by last.
\* x + out (l.485, l.422), out = ... @ ow with ow = (the matrix) / 2^div;
\* -1 when the two do not have the same scale
ResidualAdd(e, div) == IF e = div THEN e ELSE -1

\* the weights ATT and FFN of block i are given (l.653-723), with the device
\* each is on when it is given: kw, vw, rw, ow of a layer that streams are
\* the copies .to(device=dev) has made in this call (l.657-661, l.694-697)
IssuedOn_NoTransfer(w, dd, i) ==
    LET bbb == "blocks." \o IntStr(i) \o "."
        matrices == {bbb \o m : m \in {"att.key.weight", "att.value.weight", "att.receptance.weight", "att.output.weight", "ffn.key.weight", "ffn.value.weight", "ffn.receptance.weight"}}
        vectors == {bbb \o m : m \in {"ln1.weight", "ln1.bias", "ln2.weight", "ln2.bias", "att.time_mix_k", "att.time_mix_v", "att.time_mix_r", "att.time_decay", "att.time_first", "ffn.time_mix_k", "ffn.time_mix_r"}}
        aux == IF dd.wtype = T_UINT8 THEN {m \o AuxSuffixes[j] : m \in matrices, j \in 1..Len(AuxSuffixes)} ELSE {}
    IN  [k \in matrices \cup vectors \cup aux |-> [device |-> w[k].device, copy |-> FALSE]]

IssuedOn(w, dd, i) ==
    LET bbb == "blocks." \o IntStr(i) \o "."
        matrices == {bbb \o m : m \in {"att.key.weight", "att.value.weight", "att.receptance.weight", "att.output.weight", "ffn.key.weight", "ffn.value.weight", "ffn.receptance.weight"}}
        vectors == {bbb \o m : m \in {"ln1.weight", "ln1.bias", "ln2.weight", "ln2.bias", "att.time_mix_k", "att.time_mix_v", "att.time_mix_r", "att.time_decay", "att.time_first", "ffn.time_mix_k", "ffn.time_mix_r"}}
        aux == IF dd.wtype = T_UINT8 THEN {m \o AuxSuffixes[j] : m \in matrices, j \in 1..Len(AuxSuffixes)} ELSE {}
    IN  [k \in matrices \cup vectors \cup aux |->
            IF dd.stream /\ k \in matrices
            THEN [device |-> dd.device, copy |-> TRUE]
            ELSE [device |-> w[k].device, copy |-> FALSE]]

\* the file is a fresh checkpoint, or what save_preconverted wrote of a model
\* converted from one
RunInit ==
    /\ file \in {Checkpoint(FreshKeys(n)) : n \in 1..MaxDepth}
                 \cup {save_preconverted(RWKV_init(MODEL_FILE, Checkpoint(FreshKeys(n)), d, FALSE), "pt", RWKV_PRECONVERT_FORMAT).file :
                         n \in {1, RESCALE_EVERY + 1},
                         d \in {"cpu fp32", "cuda fp16", "cpu fp32 *8 -> cuda fp16"}}
    /\ strategy_arg \in {"cpu fp32", "cpu bf16", "cuda fp16",
                         "cuda fp16i8 *8 -> cpu fp32",
                         "cpu fp32 *2 -> cuda fp16 *3+",
                         "cuda fp16i8 *2+",
                         "cpu fp32 *8 -> cuda fp16"}
    /\ use_pinned_memory = FALSE
    /\ model = RWKV_init(MODEL_FILE, file, strategy_arg, use_pinned_memory)
    /\ model.built
    /\ pc = "run"
    /\ exc = NoExc
    /\ n_layer_arg = 0 /\ strat = Unbuilt
    /\ Idle("compat")
    /\ Idle("quant")
    /\ Idle("fwd")
    /\ blk = 0 /\ halvings = 0 /\ x_exp = 0 /\ ran = <<>> /\ issued = <<>>
    /\ caller \in {<<>>, [j \in 1..(model.args.n_layer * 5) |-> "prior"]}
    /\ Idle("wkv")

\* one turn of `for i in range(args.n_layer)` (l.635-727); state is the
\* caller's list when one was passed, and the turn assigns into it
RunBlock ==
    /\ pc = "run"
    /\ blk < model.args.n_layer
    /\ LET att == "blocks." \o IntStr(blk) \o ".att."
           ffn == "blocks." \o IntStr(blk) \o ".ffn."
           after_att == ResidualAdd(x_exp, model.w[att \o "output.weight"].div)
           after_ffn == ResidualAdd(after_att, model.w[ffn \o "value.weight"].div)
           halved == Rescales(model.RESCALE_LAYER, blk)
       IN  /\ x_exp' = IF halved /\ after_ffn >= 0 THEN after_ffn + 1
                       ELSE after_ffn
           /\ halvings' = IF halved THEN halvings + 1 ELSE halvings
    /\ ran' = Append(ran, halvings)
    /\ issued' = Append(issued, IssuedOn(model.w, model.strategy.strategy[blk], blk))
    /\ caller' = [j \in DOMAIN caller |-> IF (j - 1) \div 5 = blk THEN "call" ELSE caller[j]]
    /\ blk' = blk + 1
    /\ UNCHANGED <<pc, planVars, compatVars, loadVars, quantVars, fwdVars, wkv>>

\* a kernel of turn i raises (the device is out of memory, say): in ATT,
\* before l.680 assigns, or in FFN, after it has
RunRaise(in_ffn) ==
    /\ pc = "run"
    /\ blk < model.args.n_layer
    /\ caller' = [j \in DOMAIN caller |-> IF in_ffn /\ (j - 1) \div 5 = blk /\ (j - 1) % 5 < 4 THEN "call" ELSE caller[j]]
    /\ exc' = [type |-> "RuntimeError", msg |-> "CUDA out of memory", args |-> <<>>]
    /\ pc' = "raised"
    /\ UNCHANGED <<file, use_pinned_memory, model, blk, halvings, x_exp, ran, issued, planVars, compatVars, quantVars, fwdVars, wkv>>

\* the loop is left: return x.float(), state (l.729-742)
RunReturn ==
    /\ pc = "run"
    /\ blk = model.args.n_layer
    /\ pc' = "returned"
    /\ UNCHANGED <<planVars, compatVars, loadVars, quantVars, fwdVars, runVars, wkv>>

RunNext ==
    \/ RunBlock
    \/ \E in_ffn \in BOOLEAN : RunRaise(in_ffn)
    \/ RunReturn

SpecRun == RunInit /\ [][RunNext]_vars

\* ------------------------------------------- the descriptor grammar (spec)
\* segment ('->' segment)*, segment = device ' ' dtype[i8] [' *' count['+']],
\* blanks allowed around '->', at most one segment carrying '+'.
GrSegment(str, P) ==
    ReSpaces(str,
      ReCount(str,
        (LET d == ReDtype(str, ReLit(str, ReDevice(str, ReSpaces(str, P)), " "))
         IN  d \cup ReLit(str, d, "i8"))))

RECURSIVE GrMore(_, _, _)
GrMore(str, P, seen) ==
    LET nxt == GrSegment(str, ReLit(str, P, "->"))
    IN  IF nxt \subseteq seen THEN seen
        ELSE GrMore(str, nxt \ seen, seen \cup nxt)

GrammarOK(str) ==
    LET first == GrSegment(str, {1})
    IN  /\ (Len(str) + 1) \in GrMore(str, first, first)
        /\ Cardinality({i \in 1..Len(str) : Char(str, i) = "+"}) <= 1

\* ------------------------------------------------ what a descriptor asks for
\* The segments of a descriptor, and the count each one writes.
SegsOf(str) == SplitStrategy(Strip(str))

HasCount(str, i) == PyLen(SegsOf(str)[i]) > 2

HasPlus(str) == Contains(str, "+")

CountOf(str, i) ==
    LET ss == SegsOf(str)[i][2]
    IN  IF EndsWith(ss, "+") THEN ToInt(SubSeq(ss, 2, Len(ss) - 1))
        ELSE ToInt(SubSeq(ss, 2, Len(ss)))

RECURSIVE SumUpTo(_, _)
SumUpTo(f, i) == IF i < 0 THEN 0 ELSE f[i] + SumUpTo(f, i - 1)

NSegs(str) == PyLen(SegsOf(str))

ExplicitSum(str) ==
    SumUpTo([i \in 0..(NSegs(str) - 1) |->
               IF HasCount(str, i) THEN CountOf(str, i) ELSE 0], NSegs(str) - 1)

Uncounted(str) == {i \in 0..(NSegs(str) - 1) : ~HasCount(str, i)}

\* R of the claims: the layers the explicit counts leave
Remainder(str, n_layer) == (n_layer + 1) - ExplicitSum(str)

\* the layers segment i takes: what the report prints for it
Taken(st, i) == st.report[i].store + st.report[i].stream

TakenSum(st) ==
    SumUpTo([i \in DOMAIN st.report |-> Taken(st, i)], PyLen(st.report) - 1)

\* ------------------------------------------------------------------- C1
\* C1: for every descriptor the grammar accepts and every n_layer >= 1,
\* RWKVStrategy completes, every index 0..n_layer holds a slot, and the
\* per-segment counts (stored plus streamed) sum to n_layer + 1.
C1_EveryLayerPlanned ==
    (pc = "planned" /\ GrammarOK(strategy_arg)) =>
        /\ strat.ok
        /\ DOMAIN strat.strategy = 0..n_layer_arg
        /\ \A l \in 0..n_layer_arg : strat.strategy[l] # NoSlot
        /\ TakenSum(strat) = n_layer_arg + 1

\* ------------------------------------------------------------------- C2
EXAMPLE_C2 ==
    "cpu" \o " " \o "fp32" \o " " \o "*" \o "2"
      \o " " \o "->" \o " "
      \o "cuda" \o " " \o "fp16" \o " " \o "*" \o "3" \o "+"

C2_Case == pc = "planned" /\ strategy_arg = EXAMPLE_C2 /\ n_layer_arg = 4

C2_Placement(streamed) ==
    /\ strat.ok
    /\ \A l \in {0, 1} :
         strat.strategy[l] =
           [device |-> "cpu", atype |-> T_FLOAT, wtype |-> T_FLOAT, stream |-> FALSE]
    /\ \A l \in {2, 3, 4} :
         strat.strategy[l] =
           [device |-> "cuda", atype |-> T_FLOAT16, wtype |-> T_FLOAT16,
            stream |-> streamed]

\* C2 as stated: "cpu fp32 *2 -> cuda fp16 *3+" with n_layer = 4 gives slots
\* 0, 1 to cpu fp32 and slots 2, 3, 4 to cuda fp16, marked streamed.
C2_ExampleStreamed == C2_Case => C2_Placement(TRUE)

\* C2 as amended: slots 0, 1 are cpu fp32 and slots 2, 3, 4 are cuda fp16,
\* none of them streamed: the counts 2 + 3 take all 5 slots, so the '+'
\* segment stores 3 layers and streams 0.
C2_ExampleStored ==
    C2_Case =>
        /\ C2_Placement(FALSE)
        /\ strat.report[0] = [store |-> 2, stream |-> 0]
        /\ strat.report[1] = [store |-> 3, stream |-> 0]

C2_Witness == C2_Case /\ strat.ok /\ strat.stream_i = 1

\* ------------------------------------------------------------------ C10
C10_Case ==
    /\ pc = "planned"
    /\ GrammarOK(strategy_arg)
    /\ ~HasPlus(strategy_arg)
    /\ Remainder(strategy_arg, n_layer_arg) > 0

\* the j-th (0-based, in descriptor order) of the uncounted segments
RankOf(str, i) == Cardinality({u \in Uncounted(str) : u < i})

\* the final segment takes R on top of its count when none is uncounted
C10_NoneUncounted ==
    (C10_Case /\ Uncounted(strategy_arg) = {}) =>
        /\ strat.ok
        /\ LET last == NSegs(strategy_arg) - 1
           IN  /\ Taken(strat, last)
                    = CountOf(strategy_arg, last) + Remainder(strategy_arg, n_layer_arg)
               /\ \A i \in 0..(last - 1) : Taken(strat, i) = CountOf(strategy_arg, i)

\* C10 as stated, of every plan that is built: with R > 0 and k >= 1
\* uncounted segments, each of them but the last receives floor(R/k) and the
\* last R - (k-1)*floor(R/k); with no uncounted segment the final segment
\* receives R on top of its count.
C10_EvenShares ==
    /\ C10_NoneUncounted
    /\ (C10_Case /\ Uncounted(strategy_arg) # {} /\ strat.ok) =>
          LET R == Remainder(strategy_arg, n_layer_arg)
              k == Cardinality(Uncounted(strategy_arg))
          IN  \A i \in Uncounted(strategy_arg) :
                  Taken(strat, i) =
                    IF RankOf(strategy_arg, i) < k - 1 THEN R \div k
                    ELSE R - (k - 1) * (R \div k)

\* what the j-th uncounted segment (0-based) receives when the shares are
\* taken in turn from what is left
RECURSIVE RunningShare(_, _, _)
RunningShare(R, k, j) ==
    IF j = 0 THEN R \div k
    ELSE (R - SumUpTo([m \in 0..(j - 1) |-> RunningShare(R, k, m)], j - 1))
            \div (k - j)

HasZeroCount(str) ==
    \E i \in 0..(NSegs(str) - 1) : HasCount(str, i) /\ CountOf(str, i) = 0

\* C10 as amended: the uncounted segments are served in descriptor order and
\* the j-th of k (j = 0..k-1) receives floor((R - what the earlier ones
\* received) / (k - j)), so the last receives all that is left; this when no
\* segment has the explicit count 0, and otherwise construction raises
\* ZeroDivisionError. With no uncounted segment the final segment receives R
\* on top of its count.
C10_RunningShares ==
    /\ C10_NoneUncounted
    /\ (C10_Case /\ Uncounted(strategy_arg) # {}) =>
          LET R == Remainder(strategy_arg, n_layer_arg)
              k == Cardinality(Uncounted(strategy_arg))
          IN  IF HasZeroCount(strategy_arg)
              THEN ~strat.ok /\ strat.err = "ZeroDivisionError"
              ELSE /\ strat.ok
                   /\ \A i \in Uncounted(strategy_arg) :
                        Taken(strat, i) = RunningShare(R, k, RankOf(strategy_arg, i))
                   /\ \A i \in 0..(NSegs(strategy_arg) - 1) :
                        HasCount(strategy_arg, i) =>
                            Taken(strat, i) = CountOf(strategy_arg, i)

\* three uncounted segments share 5 layers as 1, 2, 2
C10_Witness ==
    /\ C10_Case
    /\ Cardinality(Uncounted(strategy_arg)) = 3
    /\ Remainder(strategy_arg, n_layer_arg) = 5
    /\ strat.ok
    /\ \E i \in Uncounted(strategy_arg) :
          RankOf(strategy_arg, i) = 1 /\ Taken(strat, i) = 2

\* ------------------------------------------------------------------- C3
SameDtypes ==
    /\ strat.n_layer = other.n_layer
    /\ \A l \in 0..strat.n_layer :
          /\ strat.strategy[l].atype = other.strategy[l].atype
          /\ strat.strategy[l].wtype = other.strategy[l].wtype

\* C3: is_compatible(S, T) is true exactly when S and T have the same layer
\* count and at every layer the same activation dtype and the same weight
\* dtype, whatever the devices and stream flags; so is_compatible(S, S) is
\* true, and is_compatible(S, T) is false when the layer counts differ.
C3_CompatibleIffSameDtypes ==
    pc = "compared" =>
        /\ (verdict = "True") <=> SameDtypes
        /\ strat = other => verdict = "True"
        /\ strat.n_layer # other.n_layer => verdict = "False"

\* compatible strategies that differ in a device and in a stream flag
C3_Witness ==
    /\ pc = "compared"
    /\ verdict = "True"
    /\ \E l \in 0..strat.n_layer :
          strat.strategy[l].device # other.strategy[l].device
    /\ \E l \in 0..strat.n_layer :
          strat.strategy[l].stream # other.strategy[l].stream

\* ------------------------------------------------------- after a load
Returned == pc \in {"loaded", "failed"}

FreshLoad == Returned /\ file.marker = None

Reload == Returned /\ file.marker # None

\* the descriptor is one the planner turns into a plan for this file
Plannable ==
    /\ GrammarOK(Strip(strategy_arg))
    /\ RWKVStrategy(strategy_arg, get_nlayer(DOMAIN file.w)).ok

FormatError(msg) == pc = "failed" /\ exc.type = "ValueError" /\ exc.msg = msg

\* ------------------------------------------------------------------- C6
\* the count of l.301, taken with ln0's scale and bias folded away
FoldedCount == Cardinality((DOMAIN file.w) \ Ln0Keys)

RequiredKeys == FreshKeys(get_nlayer(DOMAIN file.w))

\* C6: a fresh load fails with the model-format error whenever the parameter
\* count, ln0's scale and bias folded into the embedding, differs from
\* 4 + 18 * n_layer, and in particular whenever one required parameter is
\* missing.
C6_MiscountIsFormatError ==
    (/\ FreshLoad
     /\ Plannable
     /\ \/ FoldedCount # 4 + 18 * get_nlayer(DOMAIN file.w)
        \/ ~(RequiredKeys \subseteq DOMAIN file.w))
        => FormatError(MSG_NOT_RWKV4)

\* ------------------------------------------------------------------- C7
\* C7: a descriptor outside the placement grammar fails with a configuration
\* error whose message holds the descriptor, and no plan or weight is made.
C7_MalformedIsConfigError ==
    (/\ Returned
     /\ Strip(strategy_arg) # "preconverted"
     /\ ~GrammarOK(Strip(strategy_arg)))
        => /\ pc = "failed"
           /\ exc.type = "ValueError"
           /\ Contains(exc.msg, Strip(strategy_arg))
           /\ model = NoModel

\* ------------------------------------------------------------------- C8
CurrentVersion ==
    StartsWith(file.marker, IntStr(RWKV_PRECONVERT_FORMAT) \o "|")

EmbeddedString == Split(file.marker, "|")[3]

\* every tensor of the file is in the model as it was saved, but for where
\* it is kept
Unprocessed ==
    /\ DOMAIN model.w = DOMAIN file.w
    /\ \A k \in DOMAIN file.w :
          [model.w[k] EXCEPT !.device = "cpu", !.pinned = FALSE]
            = [file.w[k] EXCEPT !.device = "cpu", !.pinned = FALSE]

\* C8: a reload that asks for 'preconverted' succeeds, takes the strategy the
\* file embeds, and processes no parameter.
C8_ReservedWordAdoptsEmbedded ==
    (Reload /\ CurrentVersion /\ Strip(strategy_arg) = "preconverted")
        => /\ pc = "loaded"
           /\ model.strategy.strategy_string = EmbeddedString
           /\ Unprocessed

\* ------------------------------------------------------------------- C9
Embedded == RWKVStrategy(EmbeddedString, ToInt(Split(file.marker, "|")[2]))

Requested == RWKVStrategy(strategy_arg, get_nlayer(DOMAIN file.w))

\* compatible as C3 has it: the same layer count, the same dtypes per layer
Compatible(a, b) ==
    /\ a.ok /\ b.ok
    /\ a.n_layer = b.n_layer
    /\ \A l \in 0..a.n_layer :
          /\ a.strategy[l].atype = b.strategy[l].atype
          /\ a.strategy[l].wtype = b.strategy[l].wtype

C9_Outcome(compatible) ==
    IF CurrentVersion /\ compatible
    THEN pc = "loaded" /\ Unprocessed
    ELSE IF ~CurrentVersion
    THEN FormatError(MSG_INCOMPATIBLE_VERSION)
    ELSE /\ FormatError(MSG_INCOMPATIBLE_STRATEGY)
         /\ exc.args = <<Embedded.strategy_string, Embedded.n_layer,
                         Strip(strategy_arg), get_nlayer(DOMAIN file.w)>>

\* C9: a reload with an explicit descriptor succeeds, processing nothing,
\* exactly when the file has the current format version and the requested
\* strategy is compatible with the embedded one; otherwise it fails with a
\* model-format error, which for a strategy mismatch names both strategy
\* strings and both layer counts.
C9_ReloadIffCompatible ==
    (Reload /\ GrammarOK(Strip(strategy_arg)))
        => C9_Outcome(Compatible(Requested, Embedded))

\* the same, for the descriptors the planner turns into a plan
C9_ReloadIffCompatible_Planned ==
    (Reload /\ GrammarOK(Strip(strategy_arg)) /\ Requested.ok)
        => C9_Outcome(Compatible(Requested, Embedded))

\* ------------------------------------------------------------------- C4
\* every token has been fed by itself, and the whole list in one call
C4_Case == pc = "fwd" /\ fed = Len(tokens) /\ seq_called

C4_FinalScores == out_seq.rows[Len(out_seq.rows)]

\* C4: T calls of one token each, the state threaded through, leave the
\* state and the last scores that one call on the T tokens leaves
C4_OneByOneIsSequence ==
    C4_Case => (state_one = state_seq /\ out_one.rows[1] = C4_FinalScores)

\* two tokens or more went both ways through two blocks or more, from a
\* state the caller made
C4_Witness ==
    /\ C4_Case
    /\ Len(tokens) >= 2
    /\ model.args.n_layer >= 2
    /\ state0 # NoState

\* and from None
C4_Witness_None ==
    /\ C4_Case
    /\ Len(tokens) >= 2
    /\ state0 = NoState

\* ------------------------------------------------------------------- C5
\* the step of element (i, j): ry[i] * rx[j], a 256th of the two ranges the
\* codec divided by
C5_Step(i, j) == FMul(packed.ry[i], packed.rx[j])

\* the distance between the element rebuilt and the element given
C5_Error(i, j) ==
    LET diff == FSub(restored[i][j], matrix[i][j])
    IN  [diff EXCEPT !.n = Abs(diff.n)]

\* a <= b of floats: false when either is NaN
C5_Leq(a, b) == ~IsNaN(a) /\ ~IsNaN(b) /\ ~FLess(b, a)

C5_Case == pc = "restored"

\* C5: the matrix rebuilt from what fixup_tensor_int8 left is, element by
\* element, within one quantization step of the matrix it was given
C5_WithinOneStep ==
    C5_Case =>
        \A i \in 1..Len(matrix) : \A j \in 1..Len(matrix[1]) :
            C5_Leq(C5_Error(i, j), C5_Step(i, j))

\* a column the codec divides by has range zero: its quotients are 0/0, and
\* amax carries the NaN into every ry
C5_ZeroRange == \E i \in 1..Len(packed.ry) : IsNaN(packed.ry[i])

\* C5, the matrices left out that have a zero range: the others are
\* rebuilt within one step
C5_WithinOneStep_NoZeroRange ==
    (C5_Case /\ ~C5_ZeroRange) =>
        \A i \in 1..Len(matrix) : \A j \in 1..Len(matrix[1]) :
            C5_Leq(C5_Error(i, j), C5_Step(i, j))

\* ------------------------------------------------------------------ C11
C11_Case == pc = "planned" /\ GrammarOK(strategy_arg) /\ HasPlus(strategy_arg)

\* the segment that carries '+'
PlusSegment(str) ==
    CHOOSE i \in 0..(NSegs(str) - 1) :
        HasCount(str, i) /\ EndsWith(SegsOf(str)[i][2], "+")

\* the layers the plan gives to segment i: plan is cumulative (line 143)
LayersOf(st, i) ==
    {l \in 0..st.n_layer : (IF i = 0 THEN 0 ELSE st.plan[i - 1]) <= l /\ l < st.plan[i]}

Streamed(st) == {l \in 0..st.n_layer : st.strategy[l].stream}

\* max(0, (n_layer+1) - sum of the explicit counts of all segments)
Shortfall(str, n_layer) ==
    IF Remainder(str, n_layer) > 0 THEN Remainder(str, n_layer) ELSE 0

\* C11: when a segment carries '+', as many layers are flagged streamed as
\* the explicit counts leave of the n_layer+1; they are the last layers of
\* the '+' segment, after the ones it stores, and no layer of another
\* segment is flagged
C11_StreamedAreTheShortfall ==
    C11_Case =>
        /\ strat.ok
        /\ LET p == PlusSegment(strategy_arg)
               own == LayersOf(strat, p)
               S == Shortfall(strategy_arg, n_layer_arg)
           IN  /\ Cardinality(Streamed(strat)) = S
               /\ Streamed(strat) \subseteq own
               /\ Cardinality(own) >= S
               /\ \A l \in own : \A m \in Streamed(strat) :
                     l \notin Streamed(strat) => l < m

\* a '+' segment that is not the last one, storing a layer and streaming two
C11_Witness ==
    /\ C11_Case
    /\ strat.ok
    /\ PlusSegment(strategy_arg) < NSegs(strategy_arg) - 1
    /\ Cardinality(Streamed(strat)) = 2
    /\ Cardinality(LayersOf(strat, PlusSegment(strategy_arg))) = 3

\* ------------------------------------------------------------------ C12
\* forward is running, or has returned, on a model freshly loaded with
\* RESCALE_LAYER on
C12_Case ==
    /\ pc \in {"run", "returned", "raised"} /\ file.marker = None
    /\ model.RESCALE_LAYER > 0

\* the exponent of the power of two that the attention-output and FFN-value
\* matrices of block i were divided by at load
DividedBy(w, i, e) ==
    /\ w["blocks." \o IntStr(i) \o ".att.output.weight"].div = e
    /\ w["blocks." \o IntStr(i) \o ".ffn.value.weight"].div = e

\* C12: with RESCALE_LAYER on, the halvings done before block i runs are
\* floor(i / 6), the exponent its two matrices were divided by at load; so
\* after every block the residual is the residual without RESCALE_LAYER
\* divided by 2^(halvings so far)
C12_HalvingsMatchDivisors ==
    C12_Case =>
        /\ \A i \in 0..(blk - 1) :
              /\ ran[i + 1] = i \div RESCALE_EVERY
              /\ DividedBy(model.w, i, ran[i + 1])
        /\ x_exp = halvings

\* a model of more than twelve blocks has gone through two halvings
C12_Witness == C12_Case /\ pc = "returned" /\ halvings = 2 /\ x_exp = 2


\* ---------------------------------------------------------------- C13
\* What a layer leaves in the state names what it read:
\*   aa = e1 * aa + e2 * v,  bb = e1 * bb + e2,  pp = maximum(t_decay + pp, k)
\* so the accumulators an advance read are operands of the ones it wrote.
Acc(state, i) == <<state[i * 5 + 1], state[i * 5 + 2], state[i * 5 + 3]>>

ReadBy(acc) == <<acc[1][2][3], acc[2][2][3], acc[3][2][3]>>

RECURSIVE Back(_, _)
Back(acc, n) == IF n = 0 THEN acc ELSE Back(ReadBy(acc), n - 1)

KeyOf(acc) == acc[3][3]

ValueOf(acc) == acc[1][3][3]

RECURSIVE Subterm(_, _)
Subterm(s, t) ==
    IF t[1] = s[1] /\ t = s THEN TRUE
    ELSE IF t[1] \in {"w", "emb", "zeros", "state", "0.5", "1", "2", "1e30"} THEN FALSE
    ELSE IF t[1] = "to" THEN Subterm(s, t[3])
    ELSE \E j \in 2..Len(t) : Subterm(s, t[j])

StartState == IF state0 = NoState THEN FreshState(model, model.args.n_layer) ELSE state0

\* after n tokens from StartState left `state`, rows[t] being the scores
\* forward returned for token t, for the tokens t it returned scores of
C13_Layer(i, state, n, rows) ==
    /\ Back(Acc(state, i), n) = Acc(StartState, i)
    /\ \A t \in 1..n :
          LET written == Back(Acc(state, i), n - t)
              read == ReadBy(written)
              att == "blocks." \o IntStr(i) \o ".att."
          IN  /\ written = Advance(read[1], read[2], read[3], KeyOf(written), ValueOf(written), W(att \o "time_decay"))
              /\ t \in DOMAIN rows =>
                    Subterm(WKV(read[1], read[2], read[3], KeyOf(written), ValueOf(written), W(att \o "time_first")), rows[t])

C13_Rows(out, n) == IF out.ndim = 2 THEN out.rows ELSE (n :> out.rows[1])

\* C13: in a call on one token and in every turn of the loop of a call on
\* several, the attention output of token t is computed from the (aa, bb,
\* pp) that token t's advance reads, which are the ones token t-1's advance
\* wrote (the caller's, or the fresh ones, for the first token), and the
\* state returned holds the (aa, bb, pp) written for the last token.
C13_OutputReadsPreUpdate ==
    pc = "fwd" =>
        \A i \in 0..(model.args.n_layer - 1) :
            /\ fed > 0 => C13_Layer(i, state_one, fed, C13_Rows(out_one, fed))
            /\ seq_called => C13_Layer(i, state_seq, Len(tokens), C13_Rows(out_seq, Len(tokens)))

C13_Witness ==
    /\ pc = "fwd" /\ seq_called /\ fed = Len(tokens)
    /\ Len(tokens) = 3 /\ out_seq.ndim = 2
    /\ model.args.n_layer = 2
    /\ state0 # NoState
    /\ Back(Acc(state_seq, 1), 2) = Back(Acc(state_one, 1), 2)
    /\ ReadBy(Back(Acc(state_seq, 1), 2)) = Acc(state0, 1)

\* ---------------------------------------------------------------- C14
C14_Case == pc = "wkv" /\ wkv.n > 0

\* C14: whatever pp, the key, time_first and time_decay are, the two
\* exponentials of the output step and the two of the state advance are
\* each taken of an argument <= 0, and in both steps one of the two
\* arguments is 0.
C14_ExponentsNotPositive ==
    C14_Case =>
        /\ \A a \in wkv.out \cup wkv.adv : a <= 0
        /\ 0 \in wkv.out
        /\ 0 \in wkv.adv
        /\ Cardinality(wkv.out) <= 2 /\ Cardinality(wkv.adv) <= 2

C14_Witness ==
    /\ C14_Case /\ wkv.n = MaxT
    /\ wkv.k = MaxKey /\ wkv.t_first = MaxKey
    /\ \E a \in wkv.out : a < -MaxKey
    /\ \E a \in wkv.adv : a < -MaxKey

\* ---------------------------------------------------------------- C15
C15_Case == pc = "raised" /\ caller # <<>>

\* C15: when a forward call that was given a state fails in some layer, the
\* caller's state list is as it was before the call: none of its entries
\* has been replaced by a tensor the failed call computed.
C15_PriorStateKept ==
    C15_Case => \A j \in DOMAIN caller : caller[j] = "prior"


\* ---------------------------------------------------------------- C16
Ran == pc \in {"run", "returned", "raised"}

\* every weight given to the blocks that have run was on its layer's device,
\* and the matrices of a layer that streams are still in w, on the cpu
C16_OnDevice ==
    \A b \in 1..Len(issued) : \A k \in DOMAIN issued[b] :
        /\ issued[b][k].device = model.strategy.strategy[b - 1].device
        /\ issued[b][k].copy => (k \in DOMAIN model.w /\ model.w[k].device = "cpu")
        /\ (/\ model.strategy.strategy[b - 1].stream
            /\ \/ EndsWith(k, "key.weight") \/ EndsWith(k, "value.weight")
               \/ EndsWith(k, "receptance.weight") \/ EndsWith(k, "output.weight"))
              => issued[b][k].copy

\* C16: in a forward call every weight given to a layer's ATT or FFN is on
\* the layer's device when it is given, the matrices of a layer that streams
\* being copies made earlier in the same turn, while w keeps its own
\* tensors where they were placed: no step of forward changes w.
C16_OperandsOnDevice ==
    [][(pc = "run") => (model' = model /\ C16_OnDevice')]_vars

C16_Witness ==
    /\ pc = "returned"
    /\ strategy_arg = "cuda fp16i8 *2+"
    /\ Len(issued) = 4
    /\ issued[4]["blocks.3.ffn.value.weight"] = [device |-> "cuda", copy |-> TRUE]
    /\ issued[4]["blocks.3.ffn.value.weight_mx"] = [device |-> "cuda", copy |-> FALSE]
    /\ issued[2]["blocks.1.att.key.weight"] = [device |-> "cuda", copy |-> FALSE]
    /\ model.w["blocks.3.ffn.value.weight"].device = "cpu"


\* ---------------------------------------------------------------- C17
\* forward has returned on a model loaded from a file save_preconverted
\* wrote, with a descriptor of the caller's that is_compatible has accepted
C17_Case == pc = "returned" /\ file.marker # None /\ strategy_arg # "preconverted"

\* C17: for a preconverted file loaded with a compatible descriptor, forward
\* halves the residual exactly when the conversion divided the matrices:
\* RESCALE_LAYER as set from the requested descriptor is RESCALE_LAYER as
\* the conversion set it from the embedded one, and the residual a call
\* returns has the scale its halvings account for.
C17_HalvingIffPreDivided ==
    C17_Case =>
        /\ (model.RESCALE_LAYER > 0) <=> Contains(EmbeddedString, "fp16")
        /\ x_exp = halvings
====
